---- MODULE Spec2Model ----
(***************************************************************************)
(* Model of the historical-data downloader (etl/finalInfoScript.py), of    *)
(* the storage upsert (etl/storage.py) and of the read API                 *)
(* (routers/historicos.py).                                                *)
(*                                                                         *)
(* Dates.  A Python `date` object is modelled by its day number counted    *)
(* from 2023-12-01 (a Friday); an ISO date string "YYYY-MM-DD" is modelled *)
(* by the triple <<year, month, day>>, whose lexicographic order is the    *)
(* order of the zero-padded strings.  strftime and fromisoformat convert   *)
(* between the two with the Gregorian month lengths.                       *)
(***************************************************************************)
EXTENDS Integers, Sequences, FiniteSets, TLC

\* ------------------------------------------------------------------------
\* Bounds of the model
\* ------------------------------------------------------------------------

\* The history window of main() in days; stands for YEARS_BACK * 365.
HistoryDays == 1

\* ------------------------------------------------------------------------
\* Program constants
\* ------------------------------------------------------------------------

MAX_RETRY_DAYS == 7

\* Python's None (JSON null).  Prices and volumes are never negative.
None == -1

\* The tracked securities: the first two entries of the source's list.
BVC_ASSETS ==
    << [mnemonic |-> "ECOPETROL", board |-> "EQTY"],
       [mnemonic |-> "ISA",       board |-> "EQTY"] >>

Mnemonics == { BVC_ASSETS[k].mnemonic : k \in 1..Len(BVC_ASSETS) }

\* ------------------------------------------------------------------------
\* datetime.date
\* ------------------------------------------------------------------------

IsLeap(y) == (y % 4 = 0 /\ y % 100 # 0) \/ y % 400 = 0

DaysInMonth(y, m) ==
    IF m = 2 THEN (IF IsLeap(y) THEN 29 ELSE 28)
    ELSE IF m \in {4, 6, 9, 11} THEN 30 ELSE 31

RECURSIVE DateOf(_, _, _)
DateOf(y, m, n) ==
    IF n < DaysInMonth(y, m) THEN <<y, m, n + 1>>
    ELSE IF m = 12 THEN DateOf(y + 1, 1, n - DaysInMonth(y, m))
    ELSE DateOf(y, m + 1, n - DaysInMonth(y, m))

\* candidate.strftime("%Y-%m-%d")
strftime(n) == DateOf(2023, 12, n)

RECURSIVE DaysBefore(_, _)
DaysBefore(y, m) ==
    IF y = 2023 /\ m = 12 THEN 0
    ELSE IF m = 1 THEN DaysBefore(y - 1, 12) + DaysInMonth(y - 1, 12)
    ELSE DaysBefore(y, m - 1) + DaysInMonth(y, m - 1)

\* date.fromisoformat(trade_date_str)
fromisoformat(s) == DaysBefore(s[1], s[2]) + s[3] - 1

\* date.weekday(): Monday is 0, Sunday is 6.  Day 0 (2023-12-01) is a Friday.
weekday(n) == (n + 4) % 7

\* Order of two ISO date strings (Python's str comparison).
StrLess(a, b) ==
    \/ a[1] < b[1]
    \/ a[1] = b[1] /\ a[2] < b[2]
    \/ a[1] = b[1] /\ a[2] = b[2] /\ a[3] < b[3]

StrLeq(a, b) == a = b \/ StrLess(a, b)

\* ------------------------------------------------------------------------
\* Upstream answers of the exchange API
\* ------------------------------------------------------------------------

\* Rows of a day snapshot.  A row is a JSON object: a key may be missing.
RowEco      == [mnemonic |-> "ECOPETROL", board |-> "EQTY",
                lastPrice |-> 100, volume |-> 500, openPrice |-> 99]
RowIsa      == [mnemonic |-> "ISA", board |-> "EQTY",
                lastPrice |-> 200, volume |-> 700]
RowIsaNull  == [mnemonic |-> "ISA", board |-> "EQTY",
                lastPrice |-> None, volume |-> 0]
RowIsaBare  == [mnemonic |-> "ISA", board |-> "EQTY"]
RowEcoRepo  == [mnemonic |-> "ECOPETROL", board |-> "REPO",
                lastPrice |-> 101, volume |-> 10]
RowOther    == [mnemonic |-> "BCOLOMBIA", board |-> "EQTY",
                lastPrice |-> 300, volume |-> 900]
RowNoKey    == [board |-> "EQTY", lastPrice |-> 1]

\* The snapshots the API may answer with.  A snapshot has at most one row
\* per (mnemonic, board); RowNoKey is a malformed payload.
Snapshots ==
    { << >>,
      << RowEco >>,
      << RowEco, RowIsa >>,
      << RowIsaNull, RowEco >>,
      << RowEcoRepo, RowIsa >>,
      << RowIsaBare, RowOther >>,
      << RowEco, RowNoKey >> }

\* What one fetch_day call does: it raises, or it returns a snapshot.
Raises == [raises |-> TRUE, tab |-> << >>]

Returns(t) == [raises |-> FALSE, tab |-> t]

Responses == { Raises } \cup { Returns(t) : t \in Snapshots }

\* The answers of the runs of the whole pool: a failing call, a day without
\* trading, a day with one or two tracked securities, a malformed payload.
PoolResponses ==
    { Raises, Returns(<< >>), Returns(<< RowEco >>),
      Returns(<< RowEco, RowIsa >>), Returns(<< RowEco, RowNoKey >>) }

\* ------------------------------------------------------------------------
\* Pure parts of worker_day and main
\* ------------------------------------------------------------------------

\* A faulty variant of SkipWeekend: a Saturday is passed over, a Sunday is not.
RECURSIVE SkipSaturday(_)
SkipSaturday(c) == IF weekday(c) = 5 THEN SkipSaturday(c + 1) ELSE c

RECURSIVE SkipWeekend(_)
SkipWeekend(c) == IF weekday(c) >= 5 THEN SkipWeekend(c + 1) ELSE c

\* A faulty variant of Candidate: the resolver walks back from the target date.
CandidateBackwards(base, d) == SkipWeekend(base - d)

\* The candidate probed for `delta`.
Candidate(base, d) == SkipWeekend(base + d)

\* row.get(key)
Get(row, key) == IF key \in DOMAIN row THEN row[key] ELSE None

\* x["mnemonic"], x["board"] of line 182 raise KeyError on a row without them.
WellFormed(t) ==
    \A k \in 1..Len(t) : {"mnemonic", "board"} \subseteq DOMAIN t[k]

\* idx = {(mnemonic, board): row}: the last row of a key wins.
IdxKeys(t, mn, brd) ==
    { k \in 1..Len(t) : t[k].mnemonic = mn /\ t[k].board = brd }

IdxGet(t, mn, brd) ==
    LET S == IdxKeys(t, mn, brd)
    IN  t[CHOOSE k \in S : \A j \in S : j <= k]

BoardOf(mn) ==
    LET k == CHOOSE j \in 1..Len(BVC_ASSETS) : BVC_ASSETS[j].mnemonic = mn
    IN  BVC_ASSETS[k].board

\* A faulty variant of Emits: the closing price is not looked at.
EmitsAnyRow(t, mn) == IdxKeys(t, mn, BoardOf(mn)) # {}

\* if row and row.get("lastPrice") is not None
Emits(t, mn) ==
    /\ IdxKeys(t, mn, BoardOf(mn)) # {}
    /\ Get(IdxGet(t, mn, BoardOf(mn)), "lastPrice") # None

Record(row, resolved, target, mn, brd) ==
    [ date                |-> resolved,
      targetDate          |-> target,
      open                |-> Get(row, "openPrice"),
      high                |-> Get(row, "maximumPrice"),
      low                 |-> Get(row, "minimumPrice"),
      close               |-> Get(row, "lastPrice"),
      volume              |-> Get(row, "volume"),
      averagePrice        |-> Get(row, "averagePrice"),
      absoluteVariation   |-> Get(row, "absoluteVariation"),
      percentageVariation |-> Get(row, "percentageVariation"),
      mnemonic            |-> mn,
      board               |-> brd ]

\* Faulty variants of MakeRecord: one of the two dates is written to both fields.
MakeRecordTargetAsDate(row, used, target, mn, brd) ==
    Record(row, target, target, mn, brd)

MakeRecordDateAsTarget(row, used, target, mn, brd) ==
    Record(row, used, used, mn, brd)

\* Lines 189-202: the record of security (mn, brd) built from its row.
MakeRecord(row, used, target, mn, brd) == Record(row, used, target, mn, brd)

\* The result map of worker_day for a well-formed, non-empty snapshot.
Extract(t, used, target) ==
    [ mn \in { m \in Mnemonics : Emits(t, m) } |->
        MakeRecord(IdxGet(t, mn, BoardOf(mn)), used, target, mn, BoardOf(mn)) ]

\* A faulty variant of weekdays_in_range: Saturdays are kept.
RECURSIVE WeekdaysAndSaturdays(_, _)
WeekdaysAndSaturdays(current, end) ==
    IF current > end THEN << >>
    ELSE IF weekday(current) < 6
         THEN << strftime(current) >> \o WeekdaysAndSaturdays(current + 1, end)
         ELSE WeekdaysAndSaturdays(current + 1, end)

RECURSIVE weekdays_in_range(_, _)
weekdays_in_range(current, end) ==
    IF current > end THEN << >>
    ELSE IF weekday(current) < 5
         THEN << strftime(current) >> \o weekdays_in_range(current + 1, end)
         ELSE weekdays_in_range(current + 1, end)

\* A faulty variant of Merge: one record of the day is appended to every
\* accumulator, whatever its key.
MergeUnkeyed(acc, res) ==
    [ mn \in DOMAIN acc |->
        IF DOMAIN res # {}
        THEN Append(acc[mn], res[CHOOSE k \in DOMAIN res : TRUE])
        ELSE acc[mn] ]

\* A faulty variant of Merge: every record of the day is appended twice.
MergeTwice(acc, res) ==
    [ mn \in DOMAIN acc |->
        IF mn \in DOMAIN res THEN Append(Append(acc[mn], res[mn]), res[mn])
        ELSE acc[mn] ]

\* for mn, record in day_result.items(): all_results[mn].append(record)
Merge(acc, res) ==
    [ mn \in DOMAIN acc |->
        IF mn \in DOMAIN res THEN Append(acc[mn], res[mn]) ELSE acc[mn] ]

\* records.sort(key=lambda x: x["date"]): a stable sort by the date string.
RECURSIVE InsertByDate(_, _)
InsertByDate(sorted, r) ==
    IF sorted = << >> THEN << r >>
    ELSE IF StrLess(r.date, sorted[Len(sorted)].date)
         THEN Append(InsertByDate(SubSeq(sorted, 1, Len(sorted) - 1), r),
                     sorted[Len(sorted)])
         ELSE Append(sorted, r)

\* A faulty variant of SortByDate: the accumulator is written in arrival order.
Unsorted(records) == records

RECURSIVE SortByDate(_)
SortByDate(records) ==
    IF records = << >> THEN << >>
    ELSE InsertByDate(SortByDate(SubSeq(records, 1, Len(records) - 1)),
                      records[Len(records)])

\* ------------------------------------------------------------------------
\* State
\* ------------------------------------------------------------------------

VARIABLES
    all_days,     \* main: the dates dispatched, one day-task per entry
    upstream,     \* upstream: the answers the exchange API can give in this run
    market,       \* upstream: the answer for each date asked so far
    main_pc,      \* main: "bvc", "yahoo", "save", "done"
    pc,           \* per day-task: where worker_day / its future stands
    delta,        \* per day-task: the loop variable of the resolver
    tab,          \* per day-task: worker_day's local `tab`
    used_date,    \* per day-task: worker_day's local `used_date`
    result,       \* per day-task: worker_day's local `result`
    probed,       \* per day-task: the dates passed to fetch_day, in order
    thread,       \* per day-task: the worker thread that runs it, 0 before it starts
    _tls,         \* per worker thread: _tls.session, NoTls while the attribute is missing
    session,      \* per day-task: worker_day's local `session`
    wire,         \* per day-task: the HTTP calls of its latest fetch_day, in order
    print_lock,   \* TRUE while some thread holds print_lock
    progress,     \* the shared counters
    all_results,  \* main: the per-security accumulators
    saved,        \* the *_historico.json files written so far, by asset
    tickers,      \* main: the Yahoo tickers dispatched, one task per entry
    y_upstream,   \* upstream: the answers Yahoo can give in this run
    y_pc,         \* per ticker task: where download_yahoo_ticker stands
    y_own,        \* per ticker task: (session, crumb) of its own handshake
    y_cur,        \* per ticker task: (session, crumb) local to _yahoo_v8_json
    y_records,    \* per ticker task: the local `records`
    y_log,        \* per ticker task: the HTTP requests issued, in order
    y_epoch,      \* per ticker task: renewals done when its 401/403 arrived
    y_global,     \* the globals (_yahoo_session, _yahoo_crumb)
    y_lock,       \* the ticker holding _yahoo_crumb_lock, 0 when free
    renewals,     \* the renewal handshakes run so far: the ticker task of each
    yahoo_results,\* main: (ticker, records) in the order of insertion
    collection,   \* storage: the documents of one collection, in natural order
    bulk,         \* storage: the bulk_write in flight
    calls,        \* storage: the finished calls of upsert_records
    db,           \* read API: the collections of the database, by name
    request,      \* read API: the request being served
    response      \* read API: the response to it

netVars == << thread, _tls, session, wire >>

bvcVars == << all_days, upstream, market, pc, delta, tab, used_date, result,
              probed, print_lock, progress, netVars >>

yahooVars == << tickers, y_upstream, y_pc, y_own, y_cur, y_records, y_log, y_epoch,
                y_global, y_lock, renewals, yahoo_results >>

storeVars == << collection, bulk, calls >>

apiVars == << db, request, response >>

vars == << bvcVars, main_pc, all_results, saved, yahooVars, storeVars, apiVars >>

dayVars == << pc, delta, tab, used_date, result, probed >>

Tasks == 1..Len(all_days)

NoDate == << >>

EmptyMap == [ mn \in {} |-> 0 ]

\* A task occupies a worker thread from its start to the end of worker_day.
Running(i) ==
    pc[i] \notin {"PENDING", "returned", "raised", "fail_cs",
                  "COMPLETED", "FAILED"}

BVC_WORKERS == 25

YAHOO_WORKERS == 3

YAHOO_ASSETS == << "VOO", "CSPX.L", "SPY", "QQQ", "IVV", "GLD" >>

\* A (session, crumb) pair.  A session is named by the handshake that made
\* it: `by` is the ticker task that ran yahoo_init_session and `renewal`
\* tells the handshake of line 328 from the one of line 297.  crumb is the
\* session the crumb was issued for, or NoSession for None.
NoSession == [by |-> 0, renewal |-> FALSE]

NoPair == [session |-> NoSession, crumb |-> NoSession]

\* y_epoch of a ticker that has received no 401/403.
NoEpoch == -1

\* No bulk_write is in flight.
NoBulk == [active |-> FALSE, records |-> << >>, pending |-> {},
           applied |-> << >>, upserted |-> 0, modified |-> 0]

\* A database without collections.
NoCollections == [ c \in {} |-> << >> ]

\* An optional query parameter that was not given (None).
NoParam == [given |-> FALSE, value |-> << >>]

NoLimit == [given |-> FALSE, value |-> 0]

\* No request has arrived, and nothing was answered.
NoRequest == [endpoint |-> "none", mnemonic |-> "", desde |-> NoParam,
              hasta |-> NoParam, limit |-> NoLimit, date |-> << >>]

NoResponse == [status |-> 0, body |-> [detail |-> "none"]]

\* The worker threads of the BVC pool, named in the order of their first task.
Workers == 1..BVC_WORKERS

\* A thread whose _tls has no attribute `session`.  A session is named by the
\* day-task whose call of get_session created it.
NoTls == 0

\* A faulty variant of get_session: a new session on every call.
NewSessionEachCall(tls, i) == i

\* get_session() called by day-task i on a thread whose _tls.session is tls.
get_session(tls, i) == IF tls = NoTls THEN i ELSE tls

\* No token.  A token is named by the handshake that issued it: the n-th
\* handshake of day-task `by`.
NoToken == [by |-> 0, n |-> 0]

\* What the exchange does during one fetch_day: the status of the handshake,
\* the status of the data query, the rows of the snapshot.
Exchanges ==
    { [handshake |-> 500, query |-> 200, tab |-> << >>],
      [handshake |-> 200, query |-> 500, tab |-> << >>] }
        \cup { [handshake |-> 200, query |-> 200, tab |-> t] : t \in Snapshots }

\* bvc_token(session): the handshake call, then raise_for_status; `fresh` is
\* the token a successful handshake issues.
bvc_token(s, x, fresh) ==
    [calls |-> << [call |-> "handshake", session |-> s, status |-> x.handshake,
                   token |-> IF x.handshake = 200 THEN fresh ELSE NoToken] >>,
     raised |-> x.handshake # 200,
     token |-> IF x.handshake = 200 THEN fresh ELSE NoToken]

\* A faulty variant of fetch_day: the data query carries the token of the
\* task's first handshake.
FetchDayStaleToken(s, x, fresh) ==
    LET hs == bvc_token(s, x, fresh)
        q  == [call |-> "query", session |-> s, status |-> x.query,
               token |-> [by |-> fresh.by, n |-> 1]]
    IN  IF hs.raised
        THEN [calls |-> hs.calls, answer |-> Raises]
        ELSE [calls |-> hs.calls \o << q >>,
              answer |-> IF x.query # 200 THEN Raises ELSE Returns(x.tab)]

\* fetch_day(session, trade_date): the calls it makes and what it does, it
\* raises or it returns the rows.
fetch_day(s, x, fresh) ==
    LET hs == bvc_token(s, x, fresh)
        q  == [call |-> "query", session |-> s, status |-> x.query,
               token |-> hs.token]
    IN  IF hs.raised
        THEN [calls |-> hs.calls, answer |-> Raises]
        ELSE [calls |-> hs.calls \o << q >>,
              answer |-> IF x.query # 200 THEN Raises ELSE Returns(x.tab)]

\* The token the next handshake of day-task i is answered with.
FreshToken(i) == [by |-> i, n |-> Len(probed[i]) + 1]

\* The answers fetch_day can give for `cstr`: the one already given for that
\* date, or any answer when the date is asked for the first time.
Answers(cstr) ==
    IF cstr \in DOMAIN market THEN { market[cstr] } ELSE upstream

\* The state main() is in when it enters the BVC pool for the dates `days`.
StartOfRun(days, answers, symbols, yanswers) ==
    /\ all_days = days
    /\ upstream = answers
    /\ market = [ d \in {} |-> 0 ]
    /\ main_pc = "bvc"
    /\ pc = [ i \in 1..Len(days) |-> "PENDING" ]
    /\ delta = [ i \in 1..Len(days) |-> 0 ]
    /\ tab = [ i \in 1..Len(days) |-> << >> ]
    /\ used_date = [ i \in 1..Len(days) |-> NoDate ]
    /\ result = [ i \in 1..Len(days) |-> EmptyMap ]
    /\ probed = [ i \in 1..Len(days) |-> << >> ]
    /\ thread = [ i \in 1..Len(days) |-> 0 ]
    /\ _tls = [ w \in Workers |-> NoTls ]
    /\ session = [ i \in 1..Len(days) |-> NoTls ]
    /\ wire = [ i \in 1..Len(days) |-> << >> ]
    /\ print_lock = FALSE
    /\ progress = [ bvc_done |-> 0, bvc_total |-> Len(days), bvc_ok |-> 0,
                    bvc_skip |-> 0, bvc_errors |-> 0 ]
    /\ all_results = [ mn \in Mnemonics |-> << >> ]
    /\ saved = [ mn \in {} |-> 0 ]
    /\ tickers = symbols
    /\ y_upstream = yanswers
    /\ y_pc = [ t \in 1..Len(symbols) |-> "PENDING" ]
    /\ y_own = [ t \in 1..Len(symbols) |-> NoPair ]
    /\ y_cur = [ t \in 1..Len(symbols) |-> NoPair ]
    /\ y_records = [ t \in 1..Len(symbols) |-> << >> ]
    /\ y_log = [ t \in 1..Len(symbols) |-> << >> ]
    /\ y_epoch = [ t \in 1..Len(symbols) |-> NoEpoch ]
    /\ y_global = NoPair
    /\ y_lock = 0
    /\ renewals = << >>
    /\ yahoo_results = << >>
    /\ collection = << >>
    /\ bulk = NoBulk
    /\ calls = << >>
    /\ db = NoCollections
    /\ request = NoRequest
    /\ response = NoResponse

\* ------------------------------------------------------------------------
\* worker_day, one action per step of a day-task
\* ------------------------------------------------------------------------

\* A worker thread of the pool takes the next queued task.
StartDay(i) ==
    /\ main_pc = "bvc"
    /\ pc[i] = "PENDING"
    /\ \A j \in Tasks : j < i => pc[j] # "PENDING"
    /\ Cardinality({ j \in Tasks : Running(j) }) < BVC_WORKERS
    /\ \E w \in Workers :
         /\ \A j \in Tasks : Running(j) => thread[j] # w
         /\ \A v \in Workers : v < w => \E j \in Tasks : thread[j] = v
         /\ thread' = [thread EXCEPT ![i] = w]
         /\ _tls' = [_tls EXCEPT ![w] = get_session(_tls[w], i)]
         /\ session' = [session EXCEPT ![i] = get_session(_tls[w], i)]
    /\ pc' = [pc EXCEPT ![i] = "probe"]
    /\ UNCHANGED << all_days, upstream, market, main_pc, delta, tab, used_date, result,
                    probed, wire, print_lock, progress, all_results, saved, yahooVars,
                    storeVars, apiVars >>

\* A faulty variant of Probe: the loop does not break on a snapshot with data.
ProbeWithoutBreak(i) ==
    /\ pc[i] = "probe"
    /\ LET cstr == strftime(Candidate(fromisoformat(all_days[i]), delta[i]))
       IN  \E x \in Exchanges :
             LET f == fetch_day(session[i], x, FreshToken(i))
                 o == f.answer
             IN
             /\ o \in Answers(cstr)
             /\ wire' = [wire EXCEPT ![i] = f.calls]
             /\ market' = IF cstr \in DOMAIN market THEN market
                          ELSE market @@ (cstr :> o)
             /\ probed' = [probed EXCEPT ![i] = Append(@, cstr)]
             /\ tab' = IF o.raises THEN tab ELSE [tab EXCEPT ![i] = o.tab]
             /\ used_date' = IF ~o.raises /\ o.tab # << >>
                             THEN [used_date EXCEPT ![i] = cstr]
                             ELSE used_date
             /\ delta' = [delta EXCEPT ![i] = @ + 1]
             /\ pc' = [pc EXCEPT ![i] =
                         IF delta[i] + 1 < MAX_RETRY_DAYS
                         THEN "probe" ELSE "after_loop"]
    /\ UNCHANGED << all_days, upstream, main_pc, result, thread, _tls, session,
                    print_lock, progress, all_results, saved, yahooVars, storeVars,
                    apiVars >>

\* One iteration of `for delta in range(MAX_RETRY_DAYS)`.
Probe(i) ==
    /\ pc[i] = "probe"
    /\ LET cstr == strftime(Candidate(fromisoformat(all_days[i]), delta[i]))
       IN  \E x \in Exchanges :
             LET f == fetch_day(session[i], x, FreshToken(i))
                 o == f.answer
             IN
             /\ o \in Answers(cstr)
             /\ wire' = [wire EXCEPT ![i] = f.calls]
             /\ market' = IF cstr \in DOMAIN market THEN market
                          ELSE market @@ (cstr :> o)
             /\ probed' = [probed EXCEPT ![i] = Append(@, cstr)]
             /\ IF ~o.raises /\ o.tab # << >>
                THEN /\ tab' = [tab EXCEPT ![i] = o.tab]
                     /\ used_date' = [used_date EXCEPT ![i] = cstr]
                     /\ delta' = delta
                     /\ pc' = [pc EXCEPT ![i] = "after_loop"]
                ELSE /\ tab' = IF o.raises THEN tab
                               ELSE [tab EXCEPT ![i] = o.tab]
                     /\ used_date' = used_date
                     /\ delta' = [delta EXCEPT ![i] = @ + 1]
                     /\ pc' = [pc EXCEPT ![i] =
                                 IF delta[i] + 1 < MAX_RETRY_DAYS
                                 THEN "probe" ELSE "after_loop"]
    /\ UNCHANGED << all_days, upstream, main_pc, result, thread, _tls, session,
                    print_lock, progress, all_results, saved, yahooVars, storeVars,
                    apiVars >>

\* `if not tab: with print_lock:` the lock is taken.
SkipLock(i) ==
    /\ pc[i] = "after_loop"
    /\ tab[i] = << >>
    /\ ~print_lock
    /\ print_lock' = TRUE
    /\ pc' = [pc EXCEPT ![i] = "skip_cs"]
    /\ UNCHANGED << all_days, upstream, market, main_pc, delta, tab, used_date, result,
                    probed, progress, all_results, saved, yahooVars, storeVars, apiVars, netVars >>

\* A faulty variant of SkipCount: the skip is counted, the date is not, and
\* the lock is released.
SkipCountOnly(i) ==
    /\ pc[i] = "skip_cs"
    /\ progress' = [progress EXCEPT !.bvc_skip = @ + 1]
    /\ print_lock' = FALSE
    /\ pc' = [pc EXCEPT ![i] = "skip_bar"]
    /\ UNCHANGED << all_days, upstream, market, main_pc, delta, tab, used_date, result,
                    probed, all_results, saved, yahooVars, storeVars, apiVars, netVars >>

\* Line 176: progress["bvc_skip"] += 1, inside the lock.
SkipCount(i) ==
    /\ pc[i] = "skip_cs"
    /\ progress' = [progress EXCEPT !.bvc_skip = @ + 1]
    /\ pc' = [pc EXCEPT ![i] = "skip_done"]
    /\ UNCHANGED << all_days, upstream, market, main_pc, delta, tab, used_date, result,
                    probed, print_lock, all_results, saved, yahooVars, storeVars,
                    apiVars, netVars >>

\* A faulty variant of SkipDone: the date is counted and print_lock stays
\* held.
SkipDoneKeepsLock(i) ==
    /\ pc[i] = "skip_done"
    /\ progress' = [progress EXCEPT !.bvc_done = @ + 1]
    /\ pc' = [pc EXCEPT ![i] = "skip_bar"]
    /\ UNCHANGED << all_days, upstream, market, main_pc, delta, tab, used_date, result,
                    probed, print_lock, all_results, saved, yahooVars, storeVars,
                    apiVars, netVars >>

\* Line 177: progress["bvc_done"] += 1, and the release of the lock.
SkipDone(i) ==
    /\ pc[i] = "skip_done"
    /\ progress' = [progress EXCEPT !.bvc_done = @ + 1]
    /\ print_lock' = FALSE
    /\ pc' = [pc EXCEPT ![i] = "skip_bar"]
    /\ UNCHANGED << all_days, upstream, market, main_pc, delta, tab, used_date, result,
                    probed, all_results, saved, yahooVars, storeVars, apiVars, netVars >>

\* Lines 181-202: the index and the records; KeyError on a malformed row.
ExtractDay(i) ==
    /\ pc[i] = "after_loop"
    /\ tab[i] # << >>
    /\ IF WellFormed(tab[i])
       THEN /\ result' = [result EXCEPT ![i] =
                            Extract(tab[i], used_date[i], all_days[i])]
            /\ pc' = [pc EXCEPT ![i] = "ok_wait"]
       ELSE /\ result' = result
            /\ pc' = [pc EXCEPT ![i] = "raised"]
    /\ UNCHANGED << all_days, upstream, market, main_pc, delta, tab, used_date, probed,
                    print_lock, progress, all_results, saved, yahooVars, storeVars, apiVars, netVars >>

\* A faulty variant of OkLock: the counters are reached without taking
\* print_lock.
OkWithoutLock(i) ==
    /\ pc[i] = "ok_wait"
    /\ pc' = [pc EXCEPT ![i] = "ok_cs"]
    /\ UNCHANGED << all_days, upstream, market, main_pc, delta, tab, used_date, result,
                    probed, print_lock, progress, all_results, saved, yahooVars,
                    storeVars, apiVars, netVars >>

OkLock(i) ==
    /\ pc[i] = "ok_wait"
    /\ ~print_lock
    /\ print_lock' = TRUE
    /\ pc' = [pc EXCEPT ![i] = "ok_cs"]
    /\ UNCHANGED << all_days, upstream, market, main_pc, delta, tab, used_date, result,
                    probed, progress, all_results, saved, yahooVars, storeVars, apiVars, netVars >>

\* Line 205: progress["bvc_ok"] += len(result), inside the lock.
OkCount(i) ==
    /\ pc[i] = "ok_cs"
    /\ progress' = [progress EXCEPT !.bvc_ok = @ + Cardinality(DOMAIN result[i])]
    /\ pc' = [pc EXCEPT ![i] = "ok_done"]
    /\ UNCHANGED << all_days, upstream, market, main_pc, delta, tab, used_date, result,
                    probed, print_lock, all_results, saved, yahooVars, storeVars,
                    apiVars, netVars >>

\* Line 206: progress["bvc_done"] += 1, and the release of the lock.
OkDone(i) ==
    /\ pc[i] = "ok_done"
    /\ progress' = [progress EXCEPT !.bvc_done = @ + 1]
    /\ print_lock' = FALSE
    /\ pc' = [pc EXCEPT ![i] = "ok_bar"]
    /\ UNCHANGED << all_days, upstream, market, main_pc, delta, tab, used_date, result,
                    probed, all_results, saved, yahooVars, storeVars, apiVars, netVars >>

\* print_bar(trade_date_str) and the return: the bar is rendered outside the
\* lock, and rendering can raise (a division by a zero elapsed time, a
\* failing write to the console).
PrintBar(i) ==
    /\ pc[i] \in {"skip_bar", "ok_bar"}
    /\ \E fails \in BOOLEAN :
         pc' = [pc EXCEPT ![i] = IF fails THEN "raised" ELSE "returned"]
    /\ UNCHANGED << all_days, upstream, market, main_pc, delta, tab, used_date, result,
                    probed, print_lock, progress, all_results, saved, yahooVars, storeVars, apiVars, netVars >>

\* ------------------------------------------------------------------------
\* main, the BVC pool
\* ------------------------------------------------------------------------

\* as_completed yields a finished future; main handles one future at a time.
MainIdle == \A j \in Tasks : pc[j] # "fail_cs"

AllCollected == \A j \in Tasks : pc[j] \in {"COMPLETED", "FAILED"}

\* A faulty variant of MainMerge: the records of a task are appended as soon
\* as they are extracted, before the task has counted them.
MainMergeUncounted(i) ==
    /\ main_pc = "bvc"
    /\ MainIdle
    /\ pc[i] \in {"ok_wait", "returned"}
    /\ all_results' = Merge(all_results, result[i])
    /\ pc' = [pc EXCEPT ![i] = "COMPLETED"]
    /\ UNCHANGED << all_days, upstream, market, main_pc, delta, tab, used_date, result,
                    probed, print_lock, progress, saved, yahooVars, storeVars, apiVars, netVars >>

\* future.result() returns: the records are appended to the accumulators.
MainMerge(i) ==
    /\ main_pc = "bvc"
    /\ MainIdle
    /\ pc[i] = "returned"
    /\ all_results' = Merge(all_results, result[i])
    /\ pc' = [pc EXCEPT ![i] = "COMPLETED"]
    /\ UNCHANGED << all_days, upstream, market, main_pc, delta, tab, used_date, result,
                    probed, print_lock, progress, saved, yahooVars, storeVars, apiVars, netVars >>

\* A faulty variant of MainFailLock: the exception of future.result() is not caught and
\* ends main.
MainFailUncaught(i) ==
    /\ main_pc = "bvc"
    /\ MainIdle
    /\ pc[i] = "raised"
    /\ main_pc' = "done"
    /\ pc' = [pc EXCEPT ![i] = "FAILED"]
    /\ UNCHANGED << all_days, upstream, market, delta, tab, used_date, result,
                    probed, print_lock, progress, all_results, saved,
                    yahooVars, storeVars, apiVars, netVars >>

\* future.result() raises: `except Exception: with print_lock:`.
MainFailLock(i) ==
    /\ main_pc = "bvc"
    /\ MainIdle
    /\ pc[i] = "raised"
    /\ ~print_lock
    /\ print_lock' = TRUE
    /\ pc' = [pc EXCEPT ![i] = "fail_cs"]
    /\ UNCHANGED << all_days, upstream, market, main_pc, delta, tab, used_date, result,
                    probed, progress, all_results, saved, yahooVars, storeVars, apiVars, netVars >>

MainFailCount(i) ==
    /\ main_pc = "bvc"
    /\ pc[i] = "fail_cs"
    /\ progress' = [progress EXCEPT !.bvc_errors = @ + 1]
    /\ print_lock' = FALSE
    /\ pc' = [pc EXCEPT ![i] = "FAILED"]
    /\ UNCHANGED << all_days, upstream, market, main_pc, delta, tab, used_date, result,
                    probed, all_results, saved, yahooVars, storeVars, apiVars, netVars >>

\* A faulty variant of MainBVCDone: main goes on to the Yahoo phase without
\* waiting for the futures of the BVC pool.
MainBVCDoneEarly ==
    /\ main_pc = "bvc"
    /\ main_pc' = "yahoo"
    /\ UNCHANGED << bvcVars, all_results, saved, yahooVars, storeVars, apiVars >>

\* The `with ThreadPoolExecutor` block of the BVC phase is left.
MainBVCDone ==
    /\ main_pc = "bvc"
    /\ AllCollected
    /\ main_pc' = "yahoo"
    /\ UNCHANGED << bvcVars, all_results, saved, yahooVars, storeVars, apiVars >>

\* ------------------------------------------------------------------------
\* download_yahoo_ticker, one action per step of a ticker task
\* ------------------------------------------------------------------------

Tickers == 1..Len(tickers)

YRunning(t) == y_pc[t] \notin {"PENDING", "returned", "COLLECTED"}

\* The sessions made by the handshakes of ticker task t.
OwnSession(t) == [by |-> t, renewal |-> FALSE]

RenewedSession(t) == [by |-> t, renewal |-> TRUE]

\* The number of rows of a body.
MaxRows == 2

\* The chart of a v8 JSON body: the timestamps (days) and the parallel arrays
\* of the quote; `bars` gives, for each timestamp, its open, close and volume.
Chart(bars) ==
    [wellformed |-> TRUE,
     timestamp |-> [ k \in 1..Len(bars) |-> 31 + k ],
     open   |-> [ k \in 1..Len(bars) |-> bars[k].open ],
     close  |-> [ k \in 1..Len(bars) |-> bars[k].close ],
     volume |-> [ k \in 1..Len(bars) |-> bars[k].volume ]]

\* A body that is not the expected JSON: r.json() or a subscript raises.
NoChart ==
    [wellformed |-> FALSE, timestamp |-> << >>, open |-> << >>, close |-> << >>,
     volume |-> << >>]

\* A bar with every value, a bar of nulls (a day without trading), a bar with
\* a close only.
Bars ==
    { [open |-> 469, close |-> 470, volume |-> 100],
      [open |-> None, close |-> None, volume |-> None],
      [open |-> None, close |-> 470, volume |-> None] }

\* The header line of a v7 CSV body, split at the commas.  Of the numeric
\* columns the model keeps Open, Close and Volume: High, Low and Adj Close
\* are converted as Open is.
Header == << "Date", "Open", "Close", "Volume" >>

\* A line of a CSV body, split at the commas: the first field, a date ("" is
\* << >>), and the fields after it.
Line(d, fields) == [date |-> d, fields |-> fields]

\* The k-th line of a body, of each kind: a good row, a line with fewer
\* fields than the header, a row with an empty close, a row of nulls, a row
\* whose open is not a number, a row whose volume is out of the range of a
\* float, a row without volume, a line with one field more.
LineOf(kind, k) ==
    CASE kind = "good"     -> Line(strftime(31 + k), << "469", "471", "100" >>)
      [] kind = "short"    -> Line(strftime(31 + k), << "469" >>)
      [] kind = "noclose"  -> Line(strftime(31 + k), << "469", "", "100" >>)
      [] kind = "null"     -> Line(strftime(31 + k), << "null", "null", "null" >>)
      [] kind = "junk"     -> Line(strftime(31 + k), << "abc", "471", "100" >>)
      [] kind = "overflow" -> Line(strftime(31 + k), << "469", "471", "1e999" >>)
      [] kind = "novolume" -> Line(strftime(31 + k), << "469", "471", "" >>)
      [] kind = "long"     -> Line(strftime(31 + k), << "469", "471", "100", "0" >>)

LineKinds ==
    { "good", "short", "noclose", "null", "junk", "overflow", "novolume", "long" }

\* r.text.strip().split("\n") of a CSV body with a header and one line of
\* each of the kinds.
Text(kinds) ==
    [header |-> Header, lines |-> [ k \in 1..Len(kinds) |-> LineOf(kinds[k], k) ]]

\* An empty body.
NoText == [header |-> << >>, lines |-> << >>]

\* The bodies of the runs of the pool: data for 2024-01-02, no data, and a
\* body that is neither the JSON nor the CSV expected.
Rows ==
    [json |-> Chart(<< [open |-> 469, close |-> 470, volume |-> 100] >>),
     csv |-> Text(<< "good" >>)]

NoRows == [json |-> Chart(<< >>), csv |-> Text(<< >>)]

NoBody == [json |-> NoChart, csv |-> NoText]

\* What Yahoo answers to one request: an HTTP status (0: the request itself
\* failed) and the body: on 200, a body with rows, without rows, or malformed.
YahooAnswers ==
    { [status |-> 200, payload |-> Rows],
      [status |-> 200, payload |-> NoRows],
      [status |-> 200, payload |-> NoBody],
      [status |-> 401, payload |-> NoBody],
      [status |-> 403, payload |-> NoBody],
      [status |-> 500, payload |-> NoBody],
      [status |-> 0,   payload |-> NoBody] }

\* Every behaviour of Yahoo: any answer to a request, and a handshake that
\* ends with or without a crumb.
AnyYahoo == [answers |-> YahooAnswers, crumbs |-> {TRUE, FALSE}]

\* The behaviour of Yahoo in the runs of the whole ticker pool: usable rows,
\* no usable rows, the two authorization failures; every handshake gets a
\* crumb.
PoolYahoo ==
    [answers |-> { [status |-> 200, payload |-> Rows],
                   [status |-> 200, payload |-> NoRows],
                   [status |-> 401, payload |-> NoBody],
                   [status |-> 403, payload |-> NoBody] },
     crumbs |-> {TRUE}]

\* The crumb yahoo_init_session returns with session s: s's crumb, or None.
Crumbs(s) == { IF got THEN s ELSE NoSession : got \in y_upstream.crumbs }

\* `x or 0` on a number of a JSON body.
OrZero(x) == IF x = None THEN 0 ELSE x

\* The loop of lines 345-360 from the i-th timestamp on.
RECURSIVE JsonLoop(_, _, _)
JsonLoop(chart, i, sym) ==
    IF i > Len(chart.timestamp) THEN << >>
    ELSE IF chart.close[i] = None
         THEN JsonLoop(chart, i + 1, sym)
         ELSE << [date |-> strftime(chart.timestamp[i]),
                  open |-> OrZero(chart.open[i]),
                  close |-> chart.close[i],
                  volume |-> OrZero(chart.volume[i]),
                  ticker |-> sym] >> \o JsonLoop(chart, i + 1, sym)

\* The records _yahoo_v8_json returns for the answer to its last request:
\* raise_for_status, a malformed body and a failed request end in `return []`.
V8Records(sym, a) ==
    IF a.status = 200 /\ a.payload.json.wellformed
    THEN JsonLoop(a.payload.json, 1, sym)
    ELSE << >>

\* h.strip().lower() on the names of the header.
strip_lower(h) ==
    CASE h = "Date" -> "date"
      [] h = "Open" -> "open"
      [] h = "Close" -> "close"
      [] h = "Volume" -> "volume"

\* row.get(name) after dict(zip(header, parts)), "" when the key is missing.
RowGet(header, line, name) ==
    LET at == { k \in 2..Len(header) :
                  strip_lower(header[k]) = name /\ k - 1 <= Len(line.fields) }
    IN  IF at = {} THEN "" ELSE line.fields[(CHOOSE k \in at : TRUE) - 1]

\* float("1e999"), and what int() raises OverflowError on.
Infinity == 1000000

\* float(v or 0): the number, or ValueError.
Float(v) ==
    CASE v = "" -> [raises |-> FALSE, value |-> 0]
      [] v = "469" -> [raises |-> FALSE, value |-> 469]
      [] v = "471" -> [raises |-> FALSE, value |-> 471]
      [] v = "100" -> [raises |-> FALSE, value |-> 100]
      [] v = "0" -> [raises |-> FALSE, value |-> 0]
      [] v = "1e999" -> [raises |-> FALSE, value |-> Infinity]
      [] OTHER -> [raises |-> TRUE, value |-> 0]

\* One iteration of the loop of lines 382-402: the line is skipped
\* ("continue"), a record is appended, or an exception leaves the loop.
CsvRow(header, line, sym) ==
    LET close == RowGet(header, line, "close")
        o == Float(RowGet(header, line, "open"))
        c == Float(close)
        v == Float(RowGet(header, line, "volume"))
    IN  IF 1 + Len(line.fields) < Len(header) THEN [does |-> "continue"]
        ELSE IF close = "" \/ close \in {"null", "NULL"} THEN [does |-> "continue"]
        ELSE IF o.raises \/ c.raises \/ v.raises THEN [does |-> "continue"]
        ELSE IF v.value = Infinity THEN [does |-> "raise"]
        ELSE [does |-> "append",
              record |-> [date |-> line.date, open |-> o.value, close |-> c.value,
                          volume |-> v.value, ticker |-> sym]]

\* The loop of lines 382-402 from the k-th line on.
RECURSIVE CsvLoop(_, _, _, _)
CsvLoop(header, lines, k, sym) ==
    IF k > Len(lines) THEN [raised |-> FALSE, records |-> << >>]
    ELSE LET row == CsvRow(header, lines[k], sym)
             rest == CsvLoop(header, lines, k + 1, sym)
         IN  IF row.does = "raise" THEN [raised |-> TRUE, records |-> << >>]
             ELSE IF row.does = "continue" THEN rest
             ELSE [raised |-> rest.raised,
                   records |-> IF rest.raised THEN << >>
                               ELSE << row.record >> \o rest.records]

\* The records _yahoo_v7_csv returns: `return []` on a failed request, on a
\* body of fewer than two lines and on any exception.
V7Records(sym, a) ==
    IF a.status # 200 \/ Len(a.payload.csv.lines) = 0 THEN << >>
    ELSE LET loop == CsvLoop(a.payload.csv.header, a.payload.csv.lines, 1, sym)
         IN  IF loop.raised THEN << >> ELSE loop.records

\* The records of the two endpoints for the body Rows.
JsonRecords(sym) == V8Records(sym, [status |-> 200, payload |-> Rows])

CsvRecords(sym) == V7Records(sym, [status |-> 200, payload |-> Rows])

Request(endpoint, pair, a) ==
    [endpoint |-> endpoint, session |-> pair.session, crumb |-> pair.crumb,
     status |-> a.status, body |-> a.payload]

\* A faulty variant of AfterV8: the CSV endpoint is called whatever the JSON
\* path yielded.
AfterV8Always(records) == "v7"

\* `if not records: records = _yahoo_v7_csv(...)`, else the return.
AfterV8(records) == IF records = << >> THEN "v7" ELSE "returned"

\* A faulty variant of StartTicker: the pool starts a thread for every queued
\* task, whatever the number of tasks under way.
StartTickerUnbounded(t) ==
    /\ main_pc = "yahoo"
    /\ y_pc[t] = "PENDING"
    /\ y_pc' = [y_pc EXCEPT ![t] = "init"]
    /\ UNCHANGED << bvcVars, main_pc, all_results, saved, tickers, y_upstream, y_own,
                    y_cur, y_records, y_log, y_epoch, y_global, y_lock,
                    renewals, yahoo_results, storeVars, apiVars >>

\* A worker thread of the Yahoo pool takes the next queued ticker.
StartTicker(t) ==
    /\ main_pc = "yahoo"
    /\ y_pc[t] = "PENDING"
    /\ \A u \in Tickers : u < t => y_pc[u] # "PENDING"
    /\ Cardinality({ u \in Tickers : YRunning(u) }) < YAHOO_WORKERS
    /\ y_pc' = [y_pc EXCEPT ![t] = "init"]
    /\ UNCHANGED << bvcVars, main_pc, all_results, saved, tickers, y_upstream, y_own,
                    y_cur, y_records, y_log, y_epoch, y_global, y_lock,
                    renewals, yahoo_results, storeVars, apiVars >>

\* A faulty variant of TickerInit: every ticker takes the session of the first
\* handshake of the phase.
TickerInitShared(t) ==
    /\ y_pc[t] = "init"
    /\ \E crumb \in Crumbs(OwnSession(1)) :
         /\ y_own' = [y_own EXCEPT ![t] =
                        [session |-> OwnSession(1), crumb |-> crumb]]
         /\ y_cur' = [y_cur EXCEPT ![t] =
                        [session |-> OwnSession(1), crumb |-> crumb]]
    /\ y_pc' = [y_pc EXCEPT ![t] = "v8"]
    /\ UNCHANGED << bvcVars, main_pc, all_results, saved, tickers, y_upstream, y_records,
                    y_log, y_epoch, y_global, y_lock, renewals,
                    yahoo_results, storeVars, apiVars >>

\* Line 297: the ticker's own handshake; the crumb may be missing.
TickerInit(t) ==
    /\ y_pc[t] = "init"
    /\ \E crumb \in Crumbs(OwnSession(t)) :
         /\ y_own' = [y_own EXCEPT ![t] =
                        [session |-> OwnSession(t), crumb |-> crumb]]
         /\ y_cur' = [y_cur EXCEPT ![t] =
                        [session |-> OwnSession(t), crumb |-> crumb]]
    /\ y_pc' = [y_pc EXCEPT ![t] = "v8"]
    /\ UNCHANGED << bvcVars, main_pc, all_results, saved, tickers, y_upstream, y_records,
                    y_log, y_epoch, y_global, y_lock, renewals,
                    yahoo_results, storeVars, apiVars >>

\* Line 320: the first request of _yahoo_v8_json.
V8Request(t) ==
    /\ y_pc[t] = "v8"
    /\ \E a \in y_upstream.answers :
         /\ y_log' = [y_log EXCEPT ![t] = Append(@, Request("v8", y_cur[t], a))]
         /\ IF a.status \in {401, 403}
            THEN /\ y_epoch' = [y_epoch EXCEPT ![t] = Len(renewals)]
                 /\ y_pc' = [y_pc EXCEPT ![t] = "renew_wait"]
                 /\ y_records' = y_records
            ELSE /\ y_epoch' = y_epoch
                 /\ y_records' = [y_records EXCEPT ![t] = V8Records(tickers[t], a)]
                 /\ y_pc' = [y_pc EXCEPT ![t] = AfterV8(V8Records(tickers[t], a))]
    /\ UNCHANGED << bvcVars, main_pc, all_results, saved, tickers, y_upstream, y_own,
                    y_cur, y_global, y_lock, renewals, yahoo_results, storeVars, apiVars >>

\* A faulty variant of RenewLock: the handshake is entered without waiting
\* for _yahoo_crumb_lock.
RenewWithoutLock(t) ==
    /\ y_pc[t] = "renew_wait"
    /\ y_lock' = t
    /\ y_pc' = [y_pc EXCEPT ![t] = "renew_hs"]
    /\ UNCHANGED << bvcVars, main_pc, all_results, saved, tickers, y_upstream, y_own,
                    y_cur, y_records, y_log, y_epoch, y_global, renewals,
                    yahoo_results, storeVars, apiVars >>

\* Line 327: `with _yahoo_crumb_lock:`.
RenewLock(t) ==
    /\ y_pc[t] = "renew_wait"
    /\ y_lock = 0
    /\ y_lock' = t
    /\ y_pc' = [y_pc EXCEPT ![t] = "renew_hs"]
    /\ UNCHANGED << bvcVars, main_pc, all_results, saved, tickers, y_upstream, y_own,
                    y_cur, y_records, y_log, y_epoch, y_global, renewals,
                    yahoo_results, storeVars, apiVars >>

\* Line 328: yahoo_init_session() runs and _yahoo_session is stored.
RenewHandshake(t) ==
    /\ y_pc[t] = "renew_hs"
    /\ renewals' = Append(renewals, t)
    /\ y_global' = [y_global EXCEPT !.session = RenewedSession(t)]
    /\ y_pc' = [y_pc EXCEPT ![t] = "renew_store"]
    /\ UNCHANGED << bvcVars, main_pc, all_results, saved, tickers, y_upstream, y_own,
                    y_cur, y_records, y_log, y_epoch, y_lock, yahoo_results, storeVars, apiVars >>

\* Line 328: _yahoo_crumb is stored (the handshake may have got no crumb),
\* and the lock is released.
RenewStoreCrumb(t) ==
    /\ y_pc[t] = "renew_store"
    /\ \E crumb \in Crumbs(RenewedSession(t)) :
         y_global' = [y_global EXCEPT !.crumb = crumb]
    /\ y_lock' = 0
    /\ y_pc' = [y_pc EXCEPT ![t] = "read_session"]
    /\ UNCHANGED << bvcVars, main_pc, all_results, saved, tickers, y_upstream, y_own,
                    y_cur, y_records, y_log, y_epoch, renewals,
                    yahoo_results, storeVars, apiVars >>

\* Line 329: the globals are read back outside the lock, one after the other.
ReadSession(t) ==
    /\ y_pc[t] = "read_session"
    /\ y_cur' = [y_cur EXCEPT ![t].session = y_global.session]
    /\ y_pc' = [y_pc EXCEPT ![t] = "read_crumb"]
    /\ UNCHANGED << bvcVars, main_pc, all_results, saved, tickers, y_upstream, y_own,
                    y_records, y_log, y_epoch, y_global, y_lock, renewals,
                    yahoo_results, storeVars, apiVars >>

ReadCrumb(t) ==
    /\ y_pc[t] = "read_crumb"
    /\ y_cur' = [y_cur EXCEPT ![t].crumb = y_global.crumb]
    /\ y_pc' = [y_pc EXCEPT ![t] = "retry"]
    /\ UNCHANGED << bvcVars, main_pc, all_results, saved, tickers, y_upstream, y_own,
                    y_records, y_log, y_epoch, y_global, y_lock, renewals,
                    yahoo_results, storeVars, apiVars >>

\* Line 336: the one retry; whatever it answers, _yahoo_v8_json returns.
V8Retry(t) ==
    /\ y_pc[t] = "retry"
    /\ \E a \in y_upstream.answers :
         /\ y_log' = [y_log EXCEPT ![t] = Append(@, Request("v8", y_cur[t], a))]
         /\ y_records' = [y_records EXCEPT ![t] = V8Records(tickers[t], a)]
         /\ y_pc' = [y_pc EXCEPT ![t] = AfterV8(V8Records(tickers[t], a))]
    /\ UNCHANGED << bvcVars, main_pc, all_results, saved, tickers, y_upstream, y_own,
                    y_cur, y_epoch, y_global, y_lock, renewals,
                    yahoo_results, storeVars, apiVars >>

\* A faulty variant of V7Request: the CSV fallback is issued with the session
\* and crumb _yahoo_v8_json ended with.
V7RequestRenewed(t) ==
    /\ y_pc[t] = "v7"
    /\ \E a \in y_upstream.answers :
         /\ y_log' = [y_log EXCEPT ![t] = Append(@, Request("v7", y_cur[t], a))]
         /\ y_records' = [y_records EXCEPT ![t] = V7Records(tickers[t], a)]
    /\ y_pc' = [y_pc EXCEPT ![t] = "returned"]
    /\ UNCHANGED << bvcVars, main_pc, all_results, saved, tickers, y_upstream, y_own,
                    y_cur, y_epoch, y_global, y_lock, renewals,
                    yahoo_results, storeVars, apiVars >>

\* Line 307: the CSV fallback, with the session and crumb of line 297.
V7Request(t) ==
    /\ y_pc[t] = "v7"
    /\ \E a \in y_upstream.answers :
         /\ y_log' = [y_log EXCEPT ![t] = Append(@, Request("v7", y_own[t], a))]
         /\ y_records' = [y_records EXCEPT ![t] = V7Records(tickers[t], a)]
    /\ y_pc' = [y_pc EXCEPT ![t] = "returned"]
    /\ UNCHANGED << bvcVars, main_pc, all_results, saved, tickers, y_upstream, y_own,
                    y_cur, y_epoch, y_global, y_lock, renewals,
                    yahoo_results, storeVars, apiVars >>

\* ------------------------------------------------------------------------
\* get_yahoo_session_and_crumb, one action per step of a calling thread
\* ------------------------------------------------------------------------

\* A faulty variant of GetYahooLock: the check of _yahoo_session is entered
\* without waiting for _yahoo_crumb_lock.
GetYahooWithoutLock(t) ==
    /\ y_pc[t] = "PENDING"
    /\ y_lock' = t
    /\ y_pc' = [y_pc EXCEPT ![t] = "gs_check"]
    /\ UNCHANGED << bvcVars, main_pc, all_results, saved, tickers, y_upstream, y_own,
                    y_cur, y_records, y_log, y_epoch, y_global, renewals,
                    yahoo_results, storeVars, apiVars >>

\* Line 281: `with _yahoo_crumb_lock:`.
GetYahooLock(t) ==
    /\ y_pc[t] = "PENDING"
    /\ y_lock = 0
    /\ y_lock' = t
    /\ y_pc' = [y_pc EXCEPT ![t] = "gs_check"]
    /\ UNCHANGED << bvcVars, main_pc, all_results, saved, tickers, y_upstream, y_own,
                    y_cur, y_records, y_log, y_epoch, y_global, renewals,
                    yahoo_results, storeVars, apiVars >>

\* Line 282: `if _yahoo_session is None`; when it is not, the lock is released.
GetYahooCheck(t) ==
    /\ y_pc[t] = "gs_check"
    /\ IF y_global.session = NoSession
       THEN /\ y_pc' = [y_pc EXCEPT ![t] = "gs_init"]
            /\ y_lock' = y_lock
       ELSE /\ y_pc' = [y_pc EXCEPT ![t] = "gs_session"]
            /\ y_lock' = 0
    /\ UNCHANGED << bvcVars, main_pc, all_results, saved, tickers, y_upstream, y_own,
                    y_cur, y_records, y_log, y_epoch, y_global, renewals,
                    yahoo_results, storeVars, apiVars >>

\* Line 283: yahoo_init_session() runs, the globals are stored and the lock
\* is released; the crumb may be missing.
GetYahooInit(t) ==
    /\ y_pc[t] = "gs_init"
    /\ \E crumb \in Crumbs(OwnSession(t)) :
         /\ y_own' = [y_own EXCEPT ![t] =
                        [session |-> OwnSession(t), crumb |-> crumb]]
         /\ y_global' = [session |-> OwnSession(t), crumb |-> crumb]
    /\ y_lock' = 0
    /\ y_pc' = [y_pc EXCEPT ![t] = "gs_session"]
    /\ UNCHANGED << bvcVars, main_pc, all_results, saved, tickers, y_upstream,
                    y_cur, y_records, y_log, y_epoch, renewals,
                    yahoo_results, storeVars, apiVars >>

\* Line 288: the globals are read for the return outside the lock, one after
\* the other.
GetYahooSession(t) ==
    /\ y_pc[t] = "gs_session"
    /\ y_cur' = [y_cur EXCEPT ![t].session = y_global.session]
    /\ y_pc' = [y_pc EXCEPT ![t] = "gs_crumb"]
    /\ UNCHANGED << bvcVars, main_pc, all_results, saved, tickers, y_upstream, y_own,
                    y_records, y_log, y_epoch, y_global, y_lock, renewals,
                    yahoo_results, storeVars, apiVars >>

GetYahooCrumb(t) ==
    /\ y_pc[t] = "gs_crumb"
    /\ y_cur' = [y_cur EXCEPT ![t].crumb = y_global.crumb]
    /\ y_pc' = [y_pc EXCEPT ![t] = "returned"]
    /\ UNCHANGED << bvcVars, main_pc, all_results, saved, tickers, y_upstream, y_own,
                    y_records, y_log, y_epoch, y_global, y_lock, renewals,
                    yahoo_results, storeVars, apiVars >>

\* ------------------------------------------------------------------------
\* main, the Yahoo pool and the save step
\* ------------------------------------------------------------------------

\* Lines 481-488.  download_yahoo_ticker has no path that raises, so a
\* finished future is always taken by the `try` branch.
Outcome(t) ==
    IF y_pc[t] = "raised"
    THEN [ticker |-> tickers[t], records |-> << >>, report |-> "ERROR"]
    ELSE [ticker |-> tickers[t], records |-> y_records[t], report |-> "ok"]

\* A faulty variant of MainCollectTicker: a ticker without records gets no
\* entry.
MainCollectNonEmpty(t) ==
    /\ main_pc = "yahoo"
    /\ y_pc[t] \in {"returned", "raised"}
    /\ yahoo_results' = IF Outcome(t).records = << >> THEN yahoo_results
                        ELSE Append(yahoo_results, Outcome(t))
    /\ y_pc' = [y_pc EXCEPT ![t] = "COLLECTED"]
    /\ UNCHANGED << bvcVars, main_pc, all_results, saved, tickers, y_upstream, y_own,
                    y_cur, y_records, y_log, y_epoch, y_global, y_lock,
                    renewals, storeVars, apiVars >>

MainCollectTicker(t) ==
    /\ main_pc = "yahoo"
    /\ y_pc[t] \in {"returned", "raised"}
    /\ yahoo_results' = Append(yahoo_results, Outcome(t))
    /\ y_pc' = [y_pc EXCEPT ![t] = "COLLECTED"]
    /\ UNCHANGED << bvcVars, main_pc, all_results, saved, tickers, y_upstream, y_own,
                    y_cur, y_records, y_log, y_epoch, y_global, y_lock,
                    renewals, storeVars, apiVars >>

MainYahooDone ==
    /\ main_pc = "yahoo"
    /\ \A t \in Tickers : y_pc[t] = "COLLECTED"
    /\ main_pc' = "save"
    /\ UNCHANGED << bvcVars, all_results, saved, yahooVars, storeVars, apiVars >>

\* The files are written in the order of all_results, then of yahoo_results.
NextAsset ==
    CHOOSE k \in 1..Len(BVC_ASSETS) :
        /\ BVC_ASSETS[k].mnemonic \notin DOMAIN saved
        /\ \A j \in 1..(k - 1) : BVC_ASSETS[j].mnemonic \in DOMAIN saved

\* A faulty variant of SaveAsset: the file of an asset without records cannot
\* be written.
SaveAssetWithRecords ==
    /\ main_pc = "save"
    /\ \E k \in 1..Len(BVC_ASSETS) : BVC_ASSETS[k].mnemonic \notin DOMAIN saved
    /\ LET mn == BVC_ASSETS[NextAsset].mnemonic
       IN  /\ all_results[mn] # << >>
           /\ all_results' = [all_results EXCEPT ![mn] = SortByDate(@)]
           /\ saved' = saved @@ (mn :> SortByDate(all_results[mn]))
    /\ UNCHANGED << bvcVars, main_pc, yahooVars, storeVars, apiVars >>

\* Lines 497-500: the accumulator is sorted in place and written.
SaveAsset ==
    /\ main_pc = "save"
    /\ \E k \in 1..Len(BVC_ASSETS) : BVC_ASSETS[k].mnemonic \notin DOMAIN saved
    /\ LET mn == BVC_ASSETS[NextAsset].mnemonic
       IN  /\ all_results' = [all_results EXCEPT ![mn] = SortByDate(@)]
           /\ saved' = saved @@ (mn :> SortByDate(all_results[mn]))
    /\ UNCHANGED << bvcVars, main_pc, yahooVars, storeVars, apiVars >>

\* Lines 505-507.
SaveTicker ==
    /\ main_pc = "save"
    /\ Mnemonics \subseteq DOMAIN saved
    /\ \E k \in 1..Len(yahoo_results) :
         /\ yahoo_results[k].ticker \notin DOMAIN saved
         /\ \A j \in 1..(k - 1) : yahoo_results[j].ticker \in DOMAIN saved
         /\ saved' = saved @@ (yahoo_results[k].ticker :> yahoo_results[k].records)
    /\ UNCHANGED << bvcVars, main_pc, all_results, yahooVars, storeVars, apiVars >>

\* Lines 512-528: the summary; main returns.
MainSummary ==
    /\ main_pc = "save"
    /\ Mnemonics \subseteq DOMAIN saved
    /\ \A k \in 1..Len(yahoo_results) : yahoo_results[k].ticker \in DOMAIN saved
    /\ main_pc' = "done"
    /\ UNCHANGED << bvcVars, all_results, saved, yahooVars, storeVars, apiVars >>

\* ------------------------------------------------------------------------
\* storage.upsert_records
\* ------------------------------------------------------------------------

\* The number of write operations over all the calls; a call with an empty
\* list counts as one.
MaxWrites == 2

\* The records handed to upsert_records: two dates, two closes, and one
\* record with a field the others lack.
StoreRecords ==
    { [date |-> <<2024, 1, 2>>, close |-> 100],
      [date |-> <<2024, 1, 2>>, close |-> 101],
      [date |-> <<2024, 1, 2>>, close |-> 100, targetDate |-> <<2024, 1, 1>>],
      [date |-> <<2024, 1, 3>>, close |-> 100] }

Batches ==
    UNION { [1..n -> StoreRecords] : n \in 0..MaxWrites }

\* The collections the first call may find: at most one document per date.
StoredBefore ==
    { << >>, << [date |-> <<2024, 1, 2>>, close |-> 99, volume |-> 7] >> }

\* update={"$set": rec}: the fields of rec are set, the others are kept.
SetFields(doc, rec) ==
    [ f \in DOMAIN doc \cup DOMAIN rec |->
        IF f \in DOMAIN rec THEN rec[f] ELSE doc[f] ]

Matching(coll, rec) == { j \in 1..Len(coll) : coll[j].date = rec.date }

\* UpdateOne(filter={"date": rec["date"]}, update={"$set": rec}, upsert=True):
\* the first matching document is updated; without one, rec is inserted.
UpdateOne(coll, rec) ==
    IF Matching(coll, rec) = {}
    THEN Append(coll, rec)
    ELSE LET j == CHOOSE m \in Matching(coll, rec) :
                      \A n \in Matching(coll, rec) : m <= n
         IN  [coll EXCEPT ![j] = SetFields(@, rec)]

Work(records) == IF records = << >> THEN 1 ELSE Len(records)

RECURSIVE Written(_)
Written(cs) ==
    IF cs = << >> THEN 0 ELSE Work(Head(cs).records) + Written(Tail(cs))

\* Lines 59-60 and 62-71: the call; an empty list returns at once.
UpsertRecords(records) ==
    /\ ~bulk.active
    /\ Written(calls) + Work(records) <= MaxWrites
    /\ IF records = << >>
       THEN /\ calls' = Append(calls, [records |-> records, applied |-> << >>,
                                       upserted |-> 0, modified |-> 0])
            /\ bulk' = bulk
       ELSE /\ bulk' = [active |-> TRUE, records |-> records,
                        pending |-> 1..Len(records), applied |-> << >>,
                        upserted |-> 0, modified |-> 0]
            /\ calls' = calls
    /\ UNCHANGED << bvcVars, main_pc, all_results, saved, yahooVars,
                    collection, apiVars >>

\* bulk_write(operations, ordered=False): the server applies the operations
\* one by one in an order of its choice.
ApplyOperation(k) ==
    /\ bulk.active
    /\ k \in bulk.pending
    /\ collection' = UpdateOne(collection, bulk.records[k])
    /\ bulk' = [bulk EXCEPT
                  !.pending = @ \ {k},
                  !.applied = Append(@, k),
                  !.upserted = IF Matching(collection, bulk.records[k]) = {}
                               THEN @ + 1 ELSE @,
                  !.modified = IF /\ Matching(collection, bulk.records[k]) # {}
                                  /\ collection' # collection
                               THEN @ + 1 ELSE @]
    /\ UNCHANGED << bvcVars, main_pc, all_results, saved, yahooVars, calls,
                    apiVars >>

\* Lines 72-75: the summary is returned.
BulkReturn ==
    /\ bulk.active
    /\ bulk.pending = {}
    /\ calls' = Append(calls, [records |-> bulk.records,
                               applied |-> bulk.applied,
                               upserted |-> bulk.upserted,
                               modified |-> bulk.modified])
    /\ bulk' = NoBulk
    /\ UNCHANGED << bvcVars, main_pc, all_results, saved, yahooVars,
                    collection, apiVars >>

\* ------------------------------------------------------------------------
\* routers/historicos
\* ------------------------------------------------------------------------

\* The default limit of get_historico.
DefaultLimit == 100

\* The largest of the small explicit limits of a request.
MaxLimit == 2

\* str.lower() and str.upper() on the mnemonics of the requests.
lower(m) ==
    CASE m \in {"ecopetrol", "ECOPETROL", "Ecopetrol"} -> "ecopetrol"
      [] m \in {"isa", "ISA"} -> "isa"
      [] m \in {"geb", "GEB"} -> "geb"

upper(m) ==
    CASE m \in {"ecopetrol", "ECOPETROL", "Ecopetrol"} -> "ECOPETROL"
      [] m \in {"isa", "ISA"} -> "ISA"
      [] m \in {"geb", "GEB"} -> "GEB"

\* f"historico_{mnemonic.lower()}"
_collection_name(mnemonic) == << "historico_", lower(mnemonic) >>

list_collection_names(database) == DOMAIN database

\* A stored document of the day n days after 2023-12-01.
Doc(n) == [_id |-> n, date |-> strftime(n), close |-> 100 + n]

\* The projection {"_id": 0}.
Projected(doc) == [ f \in DOMAIN doc \ {"_id"} |-> doc[f] ]

\* A collection of three documents and one of DefaultLimit + 1, neither in
\* the order of the dates; an empty collection.
SmallCollection == << Doc(33), Doc(32), Doc(35) >>

LargeCollection == [ k \in 1..(DefaultLimit + 1) |-> Doc(DefaultLimit + 1 - k) ]

Databases ==
    { NoCollections,
      (_collection_name("ecopetrol") :> SmallCollection)
          @@ (_collection_name("isa") :> << >>),
      (_collection_name("ecopetrol") :> LargeCollection) }

\* bool(x) of an optional string: None and "" are false.
Truthy(param) == param.given /\ param.value # << >>

\* The query of lines 94-101 on one document.
Matches(doc, desde, hasta) ==
    /\ Truthy(desde) => StrLeq(desde.value, doc.date)
    /\ Truthy(hasta) => StrLeq(doc.date, hasta.value)

\* find(query, {"_id": 0}): the matching documents in natural order.
find(docs, desde, hasta) ==
    LET picked == SelectSeq(docs, LAMBDA d : Matches(d, desde, hasta))
    IN  [ k \in 1..Len(picked) |-> Projected(picked[k]) ]

\* cursor.sort("date", 1): ascending by the date string; documents of one
\* date keep their order.
CursorSort(docs) ==
    LET n == Len(docs)
        rank == [ k \in 1..n |->
                    Cardinality({ j \in 1..n :
                        \/ StrLess(docs[j].date, docs[k].date)
                        \/ docs[j].date = docs[k].date /\ j <= k }) ]
    IN  [ r \in 1..n |-> docs[CHOOSE k \in 1..n : rank[k] = r] ]

\* A faulty variant of effective_limit: the default applies whenever no limit
\* is given.
DefaultLimitAlways(desde, hasta, limit) ==
    IF limit.given THEN limit ELSE [given |-> TRUE, value |-> DefaultLimit]

\* Line 104: limit if limit is not None else (None if has_date_filter else 100)
effective_limit(desde, hasta, limit) ==
    IF limit.given THEN limit
    ELSE IF Truthy(desde) \/ Truthy(hasta) THEN NoLimit
         ELSE [given |-> TRUE, value |-> DefaultLimit]

\* cursor.limit(n) when a limit applies.
Limited(docs, lim) ==
    IF lim.given /\ lim.value < Len(docs) THEN SubSeq(docs, 1, lim.value)
    ELSE docs

NotFound == [status |-> 404, body |-> [detail |-> "not found"]]

\* A faulty variant of get_historico: a range without documents is answered 404.
get_historico_strict(database, mnemonic, desde, hasta, limit) ==
    IF _collection_name(mnemonic) \notin list_collection_names(database)
    THEN NotFound
    ELSE LET records == Limited(CursorSort(find(database[_collection_name(mnemonic)],
                                                desde, hasta)),
                                effective_limit(desde, hasta, limit))
         IN  IF records = << >> THEN NotFound
             ELSE [status |-> 200,
                   body |-> [mnemonic |-> upper(mnemonic), total |-> Len(records),
                             desde |-> desde, hasta |-> hasta, data |-> records]]

\* Lines 86-118.
get_historico(database, mnemonic, desde, hasta, limit) ==
    IF _collection_name(mnemonic) \notin list_collection_names(database)
    THEN NotFound
    ELSE LET records == Limited(CursorSort(find(database[_collection_name(mnemonic)],
                                                desde, hasta)),
                                effective_limit(desde, hasta, limit))
         IN  [status |-> 200,
              body |-> [mnemonic |-> upper(mnemonic), total |-> Len(records),
                        desde |-> desde, hasta |-> hasta, data |-> records]]

\* find_one({"date": date}, {"_id": 0}): the first such document, or None.
find_one(docs, date) ==
    SelectSeq(docs, LAMBDA d : d.date = date)

\* Lines 133-147.
get_historico_by_date(database, mnemonic, date) ==
    IF _collection_name(mnemonic) \notin list_collection_names(database)
    THEN NotFound
    ELSE LET found == find_one(database[_collection_name(mnemonic)], date)
         IN  IF found = << >> THEN NotFound
             ELSE [status |-> 200, body |-> Projected(found[1])]

\* The parameters of the requests.
RequestMnemonics == {"ecopetrol", "ECOPETROL", "isa", "geb"}

RequestDates == { strftime(0), strftime(33), strftime(35), strftime(40) }

OptionalDates ==
    { NoParam, [given |-> TRUE, value |-> << >>] }
        \cup { [given |-> TRUE, value |-> d] : d \in RequestDates }

Limits ==
    { NoLimit }
        \cup { [given |-> TRUE, value |-> n] : n \in 1..MaxLimit \cup {DefaultLimit + 1} }

\* GET /historicos/{mnemonic}
GetHistorico(mnemonic, desde, hasta, limit) ==
    /\ request.endpoint = "none"
    /\ request' = [endpoint |-> "get_historico", mnemonic |-> mnemonic,
                   desde |-> desde, hasta |-> hasta, limit |-> limit,
                   date |-> << >>]
    /\ response' = get_historico(db, mnemonic, desde, hasta, limit)
    /\ UNCHANGED << bvcVars, main_pc, all_results, saved, yahooVars, storeVars, db >>

\* GET /historicos/{mnemonic}/{date}
GetHistoricoByDate(mnemonic, date) ==
    /\ request.endpoint = "none"
    /\ request' = [endpoint |-> "get_historico_by_date", mnemonic |-> mnemonic,
                   desde |-> NoParam, hasta |-> NoParam, limit |-> NoLimit,
                   date |-> date]
    /\ response' = get_historico_by_date(db, mnemonic, date)
    /\ UNCHANGED << bvcVars, main_pc, all_results, saved, yahooVars, storeVars, db >>

\* ------------------------------------------------------------------------
\* Specifications
\* ------------------------------------------------------------------------

\* The number of Yahoo tickers of a run of the ticker pool.
MaxTickers == 2

\* The day main() runs on: 2024-01-03, a Wednesday.
Today == fromisoformat(<<2024, 1, 3>>)

DayStep(i) ==
    \/ StartDay(i)
    \/ Probe(i)
    \/ SkipLock(i)
    \/ SkipCount(i)
    \/ SkipDone(i)
    \/ ExtractDay(i)
    \/ OkLock(i)
    \/ OkCount(i)
    \/ OkDone(i)
    \/ PrintBar(i)

MainStep(i) ==
    \/ MainMerge(i)
    \/ MainFailLock(i)
    \/ MainFailCount(i)

TickerStep(t) ==
    \/ StartTicker(t)
    \/ TickerInit(t)
    \/ V8Request(t)
    \/ RenewLock(t)
    \/ RenewHandshake(t)
    \/ RenewStoreCrumb(t)
    \/ ReadSession(t)
    \/ ReadCrumb(t)
    \/ V8Retry(t)
    \/ V7Request(t)
    \/ MainCollectTicker(t)

\* main() as a whole, for one date and one ticker.
Init ==
    StartOfRun(weekdays_in_range(Today, Today), PoolResponses,
               SubSeq(YAHOO_ASSETS, 1, 1), AnyYahoo)

Next ==
    \/ \E i \in Tasks : DayStep(i)
    \/ \E i \in Tasks : MainStep(i)
    \/ MainBVCDone
    \/ \E t \in Tickers : TickerStep(t)
    \/ MainYahooDone
    \/ SaveAsset
    \/ SaveTicker
    \/ MainSummary

Spec == Init /\ [][Next]_vars

\* main() under a scheduler that lets some thread that can take a step take
\* one: a network call returns or raises, a lock that is free is granted.
SpecFair == Init /\ [][Next]_vars /\ WF_vars(Next)

\* main() with an empty ticker list: the BVC pool and the save step.
InitBVC ==
    StartOfRun(weekdays_in_range(Today - HistoryDays, Today), PoolResponses,
               << >>, AnyYahoo)

NextBVC ==
    \/ \E i \in Tasks : DayStep(i)
    \/ \E i \in Tasks : MainStep(i)
    \/ MainBVCDone
    \/ MainYahooDone
    \/ SaveAsset
    \/ MainSummary

SpecBVC == InitBVC /\ [][NextBVC]_vars

\* main() for a single date, any weekday of one week around the new year,
\* with every answer of the exchange API: one call of worker_day.
Targets == { fromisoformat(<<2023, 12, 28>>) + k : k \in 0..6 }

InitDay ==
    \E base \in { b \in Targets : weekday(b) < 5 } :
        StartOfRun(<< strftime(base) >>, Responses, << >>, AnyYahoo)

SpecDay == InitDay /\ [][NextBVC]_vars

\* main() on a day with no date to fetch: the ticker pool and the save step.
InitYahoo ==
    StartOfRun(<< >>, PoolResponses, SubSeq(YAHOO_ASSETS, 1, MaxTickers),
               PoolYahoo)

NextYahoo ==
    \/ MainBVCDone
    \/ \E t \in Tickers : TickerStep(t)
    \/ MainYahooDone
    \/ SaveAsset
    \/ SaveTicker
    \/ MainSummary

SpecYahoo == InitYahoo /\ [][NextYahoo]_vars

\* The number of tickers of a run with more tickers than worker threads.
PoolTickers == 4

\* An exchange API that has a snapshot for a date or none, and a Yahoo that
\* answers 200 with or without usable rows.
QuietResponses == { Returns(<< >>), Returns(<< RowEco >>) }

QuietYahoo ==
    [answers |-> { [status |-> 200, payload |-> Rows],
                   [status |-> 200, payload |-> NoRows] },
     crumbs |-> {TRUE}]

\* main() for one date and more tickers than YAHOO_WORKERS, without an
\* authorization failure.
InitPool ==
    StartOfRun(weekdays_in_range(Today, Today), QuietResponses,
               SubSeq(YAHOO_ASSETS, 1, PoolTickers), QuietYahoo)

NextPool ==
    \/ \E i \in Tasks : DayStep(i)
    \/ \E i \in Tasks : MainStep(i)
    \/ MainBVCDone
    \/ \E t \in Tickers : StartTicker(t)
    \/ \E t \in Tickers : TickerInit(t)
    \/ \E t \in Tickers : V8Request(t)
    \/ \E t \in Tickers : V7Request(t)
    \/ \E t \in Tickers : MainCollectTicker(t)
    \/ MainYahooDone

SpecPool == InitPool /\ [][NextPool]_vars

\* The number of days of the window the start and the end of a range are
\* drawn from.
RangeDays == 4

\* Friday 2023-12-29 and the days after it: a weekend and the turn of the year.
Window == { fromisoformat(<<2023, 12, 29>>) + k : k \in 0..(RangeDays - 1) }

\* main() for any range of dates of the window, with an exchange API that has
\* a snapshot for a date or none.
InitRange ==
    \E start, end \in Window :
        StartOfRun(weekdays_in_range(start, end), QuietResponses, << >>, AnyYahoo)

SpecRange == InitRange /\ [][NextBVC]_vars

\* The number of threads that call get_yahoo_session_and_crumb.
Callers == 3

\* Threads that call get_yahoo_session_and_crumb at the same time, each once,
\* before any session exists.
InitSession ==
    StartOfRun(<< >>, PoolResponses, SubSeq(YAHOO_ASSETS, 1, Callers), AnyYahoo)

NextSession ==
    \/ \E t \in Tickers : GetYahooLock(t)
    \/ \E t \in Tickers : GetYahooCheck(t)
    \/ \E t \in Tickers : GetYahooInit(t)
    \/ \E t \in Tickers : GetYahooSession(t)
    \/ \E t \in Tickers : GetYahooCrumb(t)

SpecSession == InitSession /\ [][NextSession]_vars

\* A Yahoo that answers 200 with any JSON body of at most MaxRows timestamps
\* or any CSV body of at most MaxRows lines.
ParseYahoo ==
    [answers |->
        { [status |-> 200, payload |-> [json |-> Chart(bars), csv |-> NoText]] :
            bars \in UNION { [1..n -> Bars] : n \in 0..MaxRows } }
        \cup
        { [status |-> 200, payload |-> [json |-> NoChart, csv |-> Text(kinds)]] :
            kinds \in UNION { [1..n -> LineKinds] : n \in 0..MaxRows } },
     crumbs |-> {TRUE}]

\* download_yahoo_ticker for one ticker, on each of these bodies.
InitParse ==
    StartOfRun(<< >>, PoolResponses, SubSeq(YAHOO_ASSETS, 1, 1), ParseYahoo)

NextParse ==
    \/ MainBVCDone
    \/ \E t \in Tickers : StartTicker(t)
    \/ \E t \in Tickers : TickerInit(t)
    \/ \E t \in Tickers : V8Request(t)
    \/ \E t \in Tickers : V7Request(t)

SpecParse == InitParse /\ [][NextParse]_vars

\* One request to the read API, on each of the databases.
InitApi ==
    /\ db \in Databases
    /\ request = NoRequest
    /\ response = NoResponse
    /\ collection = << >>
    /\ bulk = NoBulk
    /\ calls = << >>
    /\ all_days = << >>
    /\ upstream = PoolResponses
    /\ market = [ d \in {} |-> 0 ]
    /\ main_pc = "done"
    /\ pc = << >>
    /\ delta = << >>
    /\ tab = << >>
    /\ used_date = << >>
    /\ result = << >>
    /\ probed = << >>
    /\ thread = << >>
    /\ _tls = [ w \in Workers |-> NoTls ]
    /\ session = << >>
    /\ wire = << >>
    /\ print_lock = FALSE
    /\ progress = [ bvc_done |-> 0, bvc_total |-> 0, bvc_ok |-> 0,
                    bvc_skip |-> 0, bvc_errors |-> 0 ]
    /\ all_results = [ mn \in Mnemonics |-> << >> ]
    /\ saved = [ mn \in {} |-> 0 ]
    /\ tickers = << >>
    /\ y_upstream = PoolYahoo
    /\ y_pc = << >>
    /\ y_own = << >>
    /\ y_cur = << >>
    /\ y_records = << >>
    /\ y_log = << >>
    /\ y_epoch = << >>
    /\ y_global = NoPair
    /\ y_lock = 0
    /\ renewals = << >>
    /\ yahoo_results = << >>

NextApi ==
    \/ \E mnemonic \in RequestMnemonics, desde, hasta \in OptionalDates,
          limit \in Limits :
           GetHistorico(mnemonic, desde, hasta, limit)
    \/ \E mnemonic \in RequestMnemonics, date \in RequestDates :
           GetHistoricoByDate(mnemonic, date)

SpecApi == InitApi /\ [][NextApi]_vars

\* Calls of upsert_records on one collection.
InitStore ==
    /\ \E before \in StoredBefore :
         /\ collection = before
    /\ bulk = NoBulk
    /\ calls = << >>
    /\ all_days = << >>
    /\ upstream = PoolResponses
    /\ market = [ d \in {} |-> 0 ]
    /\ main_pc = "done"
    /\ pc = << >>
    /\ delta = << >>
    /\ tab = << >>
    /\ used_date = << >>
    /\ result = << >>
    /\ probed = << >>
    /\ thread = << >>
    /\ _tls = [ w \in Workers |-> NoTls ]
    /\ session = << >>
    /\ wire = << >>
    /\ print_lock = FALSE
    /\ progress = [ bvc_done |-> 0, bvc_total |-> 0, bvc_ok |-> 0,
                    bvc_skip |-> 0, bvc_errors |-> 0 ]
    /\ all_results = [ mn \in Mnemonics |-> << >> ]
    /\ saved = [ mn \in {} |-> 0 ]
    /\ tickers = << >>
    /\ y_upstream = PoolYahoo
    /\ y_pc = << >>
    /\ y_own = << >>
    /\ y_cur = << >>
    /\ y_records = << >>
    /\ y_log = << >>
    /\ y_epoch = << >>
    /\ y_global = NoPair
    /\ y_lock = 0
    /\ renewals = << >>
    /\ yahoo_results = << >>
    /\ db = NoCollections
    /\ request = NoRequest
    /\ response = NoResponse

NextStore ==
    \/ \E records \in Batches : UpsertRecords(records)
    \/ \E k \in 1..MaxWrites : ApplyOperation(k)
    \/ BulkReturn

SpecStore == InitStore /\ [][NextStore]_vars

\* ------------------------------------------------------------------------
\* Properties
\* ------------------------------------------------------------------------

Returned(i) == pc[i] \in {"returned", "COMPLETED"}

\* C1: when the BVC phase has ended, bvc_done equals the number of dispatched
\* day-tasks and bvc_errors equals the number of tasks that raised, whatever
\* the outcome of each task.
C1_DoneCountsEveryTask ==
    main_pc # "bvc" =>
        /\ progress.bvc_done = Len(all_days)
        /\ progress.bvc_errors = Cardinality({ i \in Tasks : pc[i] = "FAILED" })

V8Log(t) == SelectSeq(y_log[t], LAMBDA r : r.endpoint = "v8")

RenewalsBy(t) == Len(SelectSeq(renewals, LAMBDA x : x = t))

\* C2: two tickers whose first v8 request was answered 401/403 during the
\* same authorization failure (no renewal in between) do not both run the
\* renewal handshake: it runs once process-wide, not once per ticker.
C2_OneRenewalPerFailure ==
    \A t, u \in Tickers :
        (t # u /\ y_epoch[t] # NoEpoch /\ y_epoch[t] = y_epoch[u]) =>
            ~(RenewalsBy(t) > 0 /\ RenewalsBy(u) > 0)

\* C3: every record worker_day returns for a weekday target has a resolved
\* date that is not before the target and at most MAX_RETRY_DAYS calendar
\* days after it.
C3_ResolvedDateWithinHorizon ==
    \A i \in Tasks :
        Returned(i) =>
            \A mn \in DOMAIN result[i] :
                /\ fromisoformat(all_days[i]) <= fromisoformat(result[i][mn].date)
                /\ fromisoformat(result[i][mn].date) - fromisoformat(all_days[i])
                       <= MAX_RETRY_DAYS

\* A task has returned a record resolved a full seven days after its target.
C3_Witness ==
    \E i \in Tasks :
        /\ Returned(i)
        /\ \E mn \in DOMAIN result[i] :
             fromisoformat(result[i][mn].date)
                 = fromisoformat(all_days[i]) + MAX_RETRY_DAYS

Holds(records, r) == \E k \in 1..Len(records) : records[k] = r

\* C4: when the BVC phase has ended, every dispatched task is terminal and
\* every record of every task that returned normally is in the accumulators,
\* also when other tasks raised.
C4_FailureContained ==
    main_pc # "bvc" =>
        /\ \A i \in Tasks : pc[i] \in {"COMPLETED", "FAILED"}
        /\ \A i \in Tasks :
              pc[i] = "COMPLETED" =>
                  \A mn \in DOMAIN result[i] :
                      Holds(all_results[mn], result[i][mn])

\* The phase has ended with a failed task and a task whose records were kept.
C4_Witness ==
    /\ main_pc # "bvc"
    /\ \E i, j \in Tasks :
         /\ pc[i] = "FAILED"
         /\ pc[j] = "COMPLETED"
         /\ DOMAIN result[j] # {}

\* C5: the sequence of records written for a security is non-decreasing by
\* resolved date, in calendar order.
C5_SavedSortedByDate ==
    \A mn \in DOMAIN saved \cap Mnemonics :
        \A k \in 1..(Len(saved[mn]) - 1) :
            fromisoformat(saved[mn][k].date)
                <= fromisoformat(saved[mn][k + 1].date)

\* Two tasks returned both securities and were merged in the reverse order of
\* their resolved dates: ISA's accumulator, not yet sorted, still shows it,
\* and ECOPETROL's file was written in date order.
C5_Witness ==
    /\ main_pc = "save"
    /\ "ECOPETROL" \in DOMAIN saved
    /\ "ISA" \notin DOMAIN saved
    /\ Len(saved["ECOPETROL"]) = 2
    /\ Len(all_results["ISA"]) = 2
    /\ StrLess(all_results["ISA"][2].date, all_results["ISA"][1].date)
    /\ saved["ECOPETROL"][1].targetDate = all_results["ISA"][2].targetDate
    /\ saved["ECOPETROL"][2].targetDate = all_results["ISA"][1].targetDate
    /\ StrLess(saved["ECOPETROL"][1].date, saved["ECOPETROL"][2].date)

\* The scenario of C6: 2024-01-01 has an empty snapshot and 2024-01-02 a
\* snapshot with ECOPETROL alone (close 100, volume 500).
HolidayScenario ==
    /\ <<2024, 1, 1>> \in DOMAIN market
    /\ market[<<2024, 1, 1>>] = Returns(<< >>)
    /\ <<2024, 1, 2>> \in DOMAIN market
    /\ market[<<2024, 1, 2>>] = Returns(<< RowEco >>)

\* C6: in that scenario worker_day('2024-01-01') probes 2024-01-01, then
\* 2024-01-02, and nothing else, and returns exactly one record, for
\* ECOPETROL, with targetDate 2024-01-01, date 2024-01-02, close 100 and
\* volume 500; ISA has no key.
C6_HolidayScenario ==
    \A i \in Tasks :
        (all_days[i] = <<2024, 1, 1>> /\ HolidayScenario) =>
            /\ Len(probed[i]) <= 2
            /\ Returned(i) =>
                 /\ probed[i] = << <<2024, 1, 1>>, <<2024, 1, 2>> >>
                 /\ DOMAIN result[i] = {"ECOPETROL"}
                 /\ result[i]["ECOPETROL"].targetDate = <<2024, 1, 1>>
                 /\ result[i]["ECOPETROL"].date = <<2024, 1, 2>>
                 /\ result[i]["ECOPETROL"].close = 100
                 /\ result[i]["ECOPETROL"].volume = 500
                 /\ result[i]["ECOPETROL"].mnemonic = "ECOPETROL"

C6_Witness ==
    \E i \in Tasks :
        /\ all_days[i] = <<2024, 1, 1>>
        /\ HolidayScenario
        /\ Returned(i)

\* The result map of task i has been built from a non-empty snapshot.
Extracted(i) ==
    pc[i] \in {"ok_wait", "ok_cs", "ok_done", "ok_bar", "returned", "COMPLETED"}
        /\ tab[i] # << >>

\* C7: the result map has a key for a tracked security exactly when the
\* snapshot has a row with its (mnemonic, board) whose lastPrice is not null;
\* a security without such a row is left out without an exception and
\* without a change of the error counter.
C7_KeyIffRowWithPrice ==
    \A i \in Tasks :
        Extracted(i) =>
            /\ \A mn \in Mnemonics :
                 mn \in DOMAIN result[i] <=>
                     \E k \in 1..Len(tab[i]) :
                         /\ tab[i][k].mnemonic = mn
                         /\ tab[i][k].board = BoardOf(mn)
                         /\ "lastPrice" \in DOMAIN tab[i][k]
                         /\ tab[i][k].lastPrice # None
            /\ Returned(i) => progress.bvc_errors = 0

\* A task has returned from a snapshot in which ISA has a null lastPrice and
\* ECOPETROL a price.
C7_Witness ==
    \E i \in Tasks :
        /\ Returned(i)
        /\ tab[i] = << RowIsaNull, RowEco >>
        /\ DOMAIN result[i] = {"ECOPETROL"}

TaskOf(sym) == CHOOSE t \in Tickers : tickers[t] = sym

\* The ticker's retry was issued and did not succeed.
RetryFailed(t) == Len(V8Log(t)) = 2 /\ V8Log(t)[2].status # 200

\* The parts of C8 on the number of requests and renewals: at most two v8
\* requests and one renewal per ticker, the second request only after a
\* 401/403 and a renewal, and always then.
RetriedOnce ==
    \A t \in Tickers :
        /\ Len(V8Log(t)) <= 2
        /\ RenewalsBy(t) <= 1
        /\ Len(V8Log(t)) = 2 =>
               V8Log(t)[1].status \in {401, 403} /\ RenewalsBy(t) = 1
        /\ ( /\ y_pc[t] \in {"v7", "returned", "COLLECTED"}
             /\ V8Log(t)[1].status \in {401, 403} ) => Len(V8Log(t)) = 2

\* The part of C8 on the other tickers: when the pool is left, every ticker
\* has its entry in yahoo_results.
EveryTickerRecorded ==
    main_pc \in {"save", "done"} =>
        \A t \in Tickers :
            \E k \in 1..Len(yahoo_results) : yahoo_results[k].ticker = tickers[t]

\* C8: a ticker whose v8 request is answered 401/403 is retried once after
\* the renewal, with at most two v8 requests and one renewal per ticker; a
\* ticker whose retry failed is recorded as an error in the run's outcome,
\* and every other ticker is still recorded.
C8_FailedRetryRecordedAsError ==
    /\ RetriedOnce
    /\ EveryTickerRecorded
    /\ \A k \in 1..Len(yahoo_results) :
         RetryFailed(TaskOf(yahoo_results[k].ticker)) =>
             yahoo_results[k].report = "ERROR"

DocsWithDate(d) == { j \in 1..Len(collection) : collection[j].date = d }

TheDoc(d) == collection[CHOOSE j \in DocsWithDate(d) : TRUE]

Agrees(doc, rec) == \A f \in DOMAIN rec : f \in DOMAIN doc /\ doc[f] = rec[f]

\* One call with two records of the same date has returned.
OneCallTwice ==
    /\ ~bulk.active
    /\ Len(calls) = 1
    /\ Len(calls[1].records) = 2
    /\ calls[1].records[1].date = calls[1].records[2].date

\* Two calls with one record each, of the same date, have returned.
TwoCalls ==
    /\ ~bulk.active
    /\ Len(calls) = 2
    /\ Len(calls[1].records) = 1
    /\ Len(calls[2].records) = 1
    /\ calls[1].records[1].date = calls[2].records[1].date

\* C9: after two records of one date were written, in one call or in two
\* successive calls, one document has that date and its fields carry the
\* values of the second record.
C9_SecondWriteWins ==
    /\ OneCallTwice =>
         LET d == calls[1].records[2].date
         IN  /\ Cardinality(DocsWithDate(d)) = 1
             /\ Agrees(TheDoc(d), calls[1].records[2])
    /\ TwoCalls =>
         LET d == calls[2].records[1].date
         IN  /\ Cardinality(DocsWithDate(d)) = 1
             /\ Agrees(TheDoc(d), calls[2].records[1])

\* C10: after the BVC phase no accumulator holds two records with the same
\* targetDate.
C10_OneRecordPerTarget ==
    main_pc # "bvc" =>
        \A mn \in Mnemonics :
            \A k, l \in 1..Len(all_results[mn]) :
                k # l =>
                    all_results[mn][k].targetDate # all_results[mn][l].targetDate

\* After the phase an accumulator holds two records, of two target dates,
\* that were resolved to the same date.
C10_Witness ==
    /\ main_pc # "bvc"
    /\ \E mn \in Mnemonics :
         \E k, l \in 1..Len(all_results[mn]) :
             /\ k # l
             /\ all_results[mn][k].date = all_results[mn][l].date

DayTerminal(i) == pc[i] \in {"COMPLETED", "FAILED"}

TickerStarted(t) == y_pc[t] # "PENDING"

\* C11: once a Yahoo ticker task has started, every BVC day-task is terminal
\* and the records of every completed one are in all_results; once an output
\* file is written, every task of both pools has terminated.
C11_PhaseBarrier ==
    /\ (\E t \in Tickers : TickerStarted(t)) =>
           \A i \in Tasks :
               /\ DayTerminal(i)
               /\ pc[i] = "COMPLETED" =>
                      \A mn \in DOMAIN result[i] :
                          Holds(all_results[mn], result[i][mn])
    /\ DOMAIN saved # {} =>
           /\ \A i \in Tasks : DayTerminal(i)
           /\ \A t \in Tickers : y_pc[t] = "COLLECTED"

\* A ticker task is under way after a day-task that returned records, and no
\* file is written yet.
C11_Witness ==
    /\ \E t \in Tickers : y_pc[t] = "v8"
    /\ \E i \in Tasks : pc[i] = "COMPLETED" /\ DOMAIN result[i] # {}
    /\ DOMAIN saved = {}

\* The state of a task in the pool: 0 PENDING, 1 RUNNING, 2 terminal.
DayPhase(i) ==
    IF pc[i] = "PENDING" THEN 0 ELSE IF Running(i) THEN 1 ELSE 2

TickerPhase(t) ==
    IF y_pc[t] = "PENDING" THEN 0 ELSE IF YRunning(t) THEN 1 ELSE 2

WithinWorkers ==
    /\ Cardinality({ i \in Tasks : DayPhase(i) = 1 }) <= BVC_WORKERS
    /\ Cardinality({ t \in Tickers : TickerPhase(t) = 1 }) <= YAHOO_WORKERS

OneStepForward ==
    /\ \A i \in Tasks :
         DayPhase(i)' = DayPhase(i) \/ DayPhase(i)' = DayPhase(i) + 1
    /\ \A t \in Tickers :
         TickerPhase(t)' = TickerPhase(t) \/ TickerPhase(t)' = TickerPhase(t) + 1

NoAuthFailure ==
    \A t \in Tickers :
        \A k \in 1..Len(y_log[t]) : y_log[t][k].status \notin {401, 403}

\* The tickers whose handshake of line 297 has run.
Initialised == { t \in Tickers : y_own[t] # NoPair }

\* The calls of yahoo_init_session so far.
Handshakes == Cardinality(Initialised) + Len(renewals)

\* The sessions the requests of the phase were sent with.
SessionsUsed ==
    UNION { { y_log[t][k].session : k \in 1..Len(y_log[t]) } : t \in Tickers }

Renewing == { t \in Tickers : y_pc[t] \in {"renew_hs", "renew_store"} }

\* C14: at no instant are two ticker tasks inside the renewal handshake that
\* replaces _yahoo_session and _yahoo_crumb; the one inside holds
\* _yahoo_crumb_lock, and a task that needs a renewal meanwhile waits.
C14_RenewalsExclusive ==
    /\ Cardinality(Renewing) <= 1
    /\ \A t \in Renewing : y_lock = t
    /\ Renewing = {} => y_lock = 0

\* A ticker is inside the renewal while another, answered 401/403 too, waits
\* for the lock.
C14_Witness ==
    \E t, u \in Tickers :
        /\ t # u
        /\ y_pc[t] = "renew_hs"
        /\ y_pc[u] = "renew_wait"

\* worker_day raised, or its exception is being handled or was handled.
Raised(i) == pc[i] \in {"raised", "fail_cs", "FAILED"}

\* The snapshot of task i makes line 182 raise KeyError.
RaisesKeyError(i) == tab[i] # << >> /\ ~WellFormed(tab[i])

\* C15: a failure of print_bar never changes a day-task's outcome: a task
\* whose index and extraction do not raise (print_bar is then the only step
\* that can) never ends as failed, its records reach the accumulators, and
\* the error counter counts nothing but the tasks of the other kind.
C15_RenderFailureHarmless ==
    /\ \A i \in Tasks : ~RaisesKeyError(i) => ~Raised(i)
    /\ progress.bvc_errors <= Cardinality({ i \in Tasks : RaisesKeyError(i) })
    /\ main_pc # "bvc" =>
           \A i \in Tasks :
               ~RaisesKeyError(i) =>
                   \A mn \in DOMAIN result[i] :
                       Holds(all_results[mn], result[i][mn])

\* No task of the run returned a record of security mn.
NoSuccess(mn) == \A i \in Tasks : pc[i] = "COMPLETED" => mn \notin DOMAIN result[i]

\* C16: a run in which a tracked security obtains no record still completes:
\* main is never stuck before its end, and at the end a file is written for
\* every tracked security, an empty list for a security without a success.
C16_EmptyResultPersisted ==
    /\ main_pc # "done" => ENABLED NextBVC
    /\ main_pc = "done" =>
           /\ Mnemonics \subseteq DOMAIN saved
           /\ \A mn \in Mnemonics : NoSuccess(mn) => saved[mn] = << >>

\* The run has ended with records for ECOPETROL and an empty file for ISA,
\* one task having failed and the other having no row of ISA.
C16_Witness ==
    /\ main_pc = "done"
    /\ saved["ISA"] = << >>
    /\ saved["ECOPETROL"] # << >>
    /\ \E i \in Tasks : pc[i] = "FAILED"

\* The collection a request is about exists, and its documents.
DatasetExists == _collection_name(request.mnemonic) \in DOMAIN db

Dataset == db[_collection_name(request.mnemonic)]

\* The documents of the dataset in the range of the request.
InRange ==
    { k \in 1..Len(Dataset) : Matches(Dataset[k], request.desde, request.hasta) }

\* C17: get_historico answers 404 when the collection does not exist, and a
\* success with total 0 and no data when it exists without a document in the
\* range; get_historico_by_date answers 404 when the collection does not
\* exist and when no document has the date, and only then.
C17_MissingDatasetOrEmptyRange ==
    /\ request.endpoint = "get_historico" =>
           IF DatasetExists
           THEN /\ response.status = 200
                /\ InRange = {} =>
                       response.body.total = 0 /\ response.body.data = << >>
           ELSE response.status = 404
    /\ request.endpoint = "get_historico_by_date" =>
           /\ response.status \in {200, 404}
           /\ response.status = 404 <=>
                  \/ ~DatasetExists
                  \/ \A k \in 1..Len(Dataset) : Dataset[k].date # request.date

\* A range after the last document of a collection that has documents was
\* asked for and answered with a success.
C17_Witness ==
    /\ request.endpoint = "get_historico"
    /\ DatasetExists
    /\ Dataset # << >>
    /\ Truthy(request.desde)
    /\ InRange = {}
    /\ response.status = 200

Min(a, b) == IF a <= b THEN a ELSE b

\* At least one of desde and hasta is given, that is, has a non-empty value.
DateFilterGiven == Truthy(request.desde) \/ Truthy(request.hasta)

\* The number of records the limit rule of the documentation allows for the
\* request when n documents match.
Allowed(n) ==
    IF request.limit.given THEN Min(request.limit.value, n)
    ELSE IF DateFilterGiven THEN n
         ELSE Min(DefaultLimit, n)

\* C18: for every combination of desde, hasta and limit, get_historico
\* returns as many records as the rule allows (an explicit limit is applied;
\* without a limit and without a date, at most 100; without a limit and with
\* a date, all that match), the records are documents of the range, the
\* earliest ones, in ascending order of date, and total is their number.
C18_LimitRule ==
    (request.endpoint = "get_historico" /\ response.status = 200) =>
        LET data == response.body.data
        IN  /\ Len(data) = Allowed(Cardinality(InRange))
            /\ response.body.total = Len(data)
            /\ \A k \in 1..(Len(data) - 1) :
                   StrLeq(data[k].date, data[k + 1].date)
            /\ \A k \in 1..Len(data) :
                   \E j \in InRange : data[k] = Projected(Dataset[j])
            /\ \A j \in InRange :
                   \/ \E k \in 1..Len(data) : data[k] = Projected(Dataset[j])
                   \/ \A k \in 1..Len(data) : StrLeq(data[k].date, Dataset[j].date)

\* Without a limit and with a date, more than 100 records were returned, all
\* that match.
C18_Witness ==
    /\ request.endpoint = "get_historico"
    /\ response.status = 200
    /\ ~request.limit.given
    /\ DateFilterGiven
    /\ response.body.total > DefaultLimit
    /\ response.body.total = Cardinality(InRange)

\* fetch_day returned a non-empty snapshot for the date.
HasData(cstr) == ~market[cstr].raises /\ market[cstr].tab # << >>

\* C19: in a task, no call of fetch_day follows one that returned a non-empty
\* snapshot, and when the loop ends with data, the snapshot and the resolved
\* date of the records are those of the last candidate probed, the earliest
\* one with data.
C19_FirstMatchWins ==
    \A i \in Tasks :
        /\ \A k \in 1..(Len(probed[i]) - 1) : ~HasData(probed[i][k])
        /\ (pc[i] \notin {"PENDING", "probe"} /\ tab[i] # << >>) =>
               /\ used_date[i] = probed[i][Len(probed[i])]
               /\ HasData(used_date[i])
               /\ tab[i] = market[used_date[i]].tab
               /\ \A mn \in DOMAIN result[i] : result[i][mn].date = used_date[i]

\* A task returned a record resolved on its third probe, after a candidate
\* whose fetch raised and one without data, with probes left.
C19_Witness ==
    \E i \in Tasks :
        /\ Returned(i)
        /\ DOMAIN result[i] # {}
        /\ Len(probed[i]) = 3
        /\ market[probed[i][1]].raises
        /\ ~market[probed[i][2]].raises

\* Every probe of task i raised: none of the MAX_RETRY_DAYS candidates was
\* fetched.
EveryProbeRaised(i) ==
    /\ Len(probed[i]) = MAX_RETRY_DAYS
    /\ \A k \in 1..Len(probed[i]) : market[probed[i][k]].raises

\* C20: a raising fetch_day is taken as an empty snapshot and the resolver
\* goes on with the next delta; a task in which every probe raised ends like
\* a holiday: it returns an empty map, bvc_skip and bvc_done have grown by 1
\* and bvc_errors is unchanged.
C20_AllProbesRaiseIsSkip ==
    \A i \in Tasks :
        /\ \A k \in 1..Len(probed[i]) :
               (market[probed[i][k]].raises /\ k < MAX_RETRY_DAYS) =>
                   pc[i] = "probe" \/ Len(probed[i]) > k
        /\ (EveryProbeRaised(i) /\ DayTerminal(i)) =>
               /\ pc[i] = "COMPLETED"
               /\ result[i] = EmptyMap
               /\ progress.bvc_skip = 1
               /\ progress.bvc_done = 1
               /\ progress.bvc_errors = 0

\* The horizon of task i is exhausted: MAX_RETRY_DAYS candidates were probed
\* and none had a snapshot with data.
Exhausted(i) ==
    /\ Len(probed[i]) = MAX_RETRY_DAYS
    /\ \A k \in 1..Len(probed[i]) : ~HasData(probed[i][k])

\* C21: a task whose horizon is exhausted is a terminal skip: it returns an
\* empty map, bvc_skip and bvc_done have grown by 1, bvc_ok, bvc_errors and
\* the accumulators are as they were, and the task probes nothing more.
C21_ExhaustedIsTerminalSkip ==
    \A i \in Tasks :
        /\ Len(probed[i]) <= MAX_RETRY_DAYS
        /\ (Exhausted(i) /\ DayTerminal(i)) =>
               /\ pc[i] = "COMPLETED"
               /\ result[i] = EmptyMap
               /\ progress.bvc_skip = 1
               /\ progress.bvc_done = 1
               /\ progress.bvc_ok = 0
               /\ progress.bvc_errors = 0
               /\ \A mn \in Mnemonics : all_results[mn] = << >>

Completed == { i \in Tasks : pc[i] = "COMPLETED" }

Failed == { i \in Tasks : pc[i] = "FAILED" }

\* The number of records in the result maps of the tasks of S.
RECURSIVE CountRecords(_)
CountRecords(S) ==
    IF S = {} THEN 0
    ELSE LET i == CHOOSE x \in S : TRUE
         IN  Cardinality(DOMAIN result[i]) + CountRecords(S \ {i})

\* C22: a task that ends FAILED changes no shared state but bvc_errors, by 1:
\* when the phase has ended, bvc_errors is the number of failed tasks, and
\* bvc_done, bvc_ok, bvc_skip and the accumulators are what the completed
\* tasks alone made them.
C22_FailedChangesOnlyErrors ==
    main_pc # "bvc" =>
        /\ progress.bvc_errors = Cardinality(Failed)
        /\ progress.bvc_done = Cardinality(Completed)
        /\ progress.bvc_ok = CountRecords(Completed)
        /\ progress.bvc_skip = Cardinality({ i \in Completed : tab[i] = << >> })
        /\ \A mn \in Mnemonics :
               \A k \in 1..Len(all_results[mn]) :
                   \E i \in Completed :
                       /\ mn \in DOMAIN result[i]
                       /\ result[i][mn] = all_results[mn][k]

\* The number of records in the accumulators of the mnemonics of S.
RECURSIVE CountMerged(_)
CountMerged(S) ==
    IF S = {} THEN 0
    ELSE LET mn == CHOOSE x \in S : TRUE
         IN  Len(all_results[mn]) + CountMerged(S \ {mn})

\* C23 as stated: the counters count a task exactly when its records are in
\* the accumulators (the merge and the counter update are one atomic step).
C23_MergedIffCounted ==
    /\ progress.bvc_ok = CountMerged(Mnemonics)
    /\ progress.bvc_done - progress.bvc_skip = Cardinality(Completed \ { i \in Tasks : tab[i] = << >> })

\* C23, amended: a task counts its records itself, under print_lock, before it
\* returns, and main merges them afterwards, alone and without the lock; so
\* the records of a task are in the accumulators only if bvc_done and bvc_ok
\* already count the task, while a counted task may not be merged yet.
C23_MergedOnlyAfterCounted ==
    /\ progress.bvc_ok >= CountMerged(Mnemonics)
    /\ progress.bvc_done >= Cardinality(Completed)
    /\ \A mn \in Mnemonics :
           \A k \in 1..Len(all_results[mn]) :
               \E i \in Tasks :
                   /\ pc[i] = "COMPLETED"
                   /\ mn \in DOMAIN result[i]
                   /\ result[i][mn] = all_results[mn][k]

\* A task has counted its records and returned; main has not merged them yet.
C23_Witness ==
    \E i \in Tasks :
        /\ pc[i] = "returned"
        /\ result[i] # EmptyMap
        /\ progress.bvc_done = 1
        /\ progress.bvc_ok = Cardinality(DOMAIN result[i])
        /\ CountMerged(Mnemonics) = 0

\* The task has passed the counter update of the skip branch (lines 174-177).
CountedSkip(i) ==
    /\ tab[i] = << >>
    /\ pc[i] \in {"skip_bar", "returned", "raised", "fail_cs", "COMPLETED", "FAILED"}

\* The task has passed the counter update of lines 204-206.
CountedOk(i) ==
    /\ tab[i] # << >>
    /\ WellFormed(tab[i])
    /\ pc[i] \in {"ok_bar", "returned", "raised", "fail_cs", "COMPLETED", "FAILED"}

NoUpdateLost ==
    /\ progress.bvc_skip = Cardinality({ i \in Tasks : CountedSkip(i) })
    /\ progress.bvc_ok = CountRecords({ i \in Tasks : CountedOk(i) })
    /\ progress.bvc_done = Cardinality({ i \in Tasks : CountedSkip(i) \/ CountedOk(i) })
    /\ progress.bvc_errors = Cardinality(Failed)

CountsUnderLock == progress' # progress => print_lock

\* C24: every increment of bvc_done, bvc_ok, bvc_skip and bvc_errors is made
\* while print_lock is held, and no update is lost: bvc_skip is the number of
\* tasks whose probes ended with an empty snapshot, bvc_ok the number of records
\* of the tasks that reached their counter update, bvc_done the number of
\* tasks that counted, bvc_errors the number of failed tasks, whenever the
\* lock is free.
C24_CountersUnderLock == [](~print_lock => NoUpdateLost) /\ [][CountsUnderLock]_vars

\* Two tasks have counted, one a skip and one its records, and the pool has
\* ended.
C24_Witness ==
    /\ main_pc # "bvc"
    /\ Cardinality(Tasks) = 2
    /\ \E i, j \in Tasks : CountedSkip(i) /\ CountedOk(j) /\ result[j] # EmptyMap
    /\ progress.bvc_done = 2
    /\ progress.bvc_skip = 1
    /\ progress.bvc_ok >= 1

\* The requests ticker task t has sent to the v7 CSV endpoint.
V7Log(t) == { k \in 1..Len(y_log[t]) : y_log[t][k].endpoint = "v7" }

TickerReturned(t) == y_pc[t] \in {"returned", "COLLECTED"}

FallbackIffEmpty ==
    \A t \in Tickers :
        /\ y_pc[t] \in {"PENDING", "init", "v8", "renew_wait", "renew_hs",
                        "renew_store", "read_session", "read_crumb", "retry"}
               => V7Log(t) = {}
        /\ y_pc[t] = "v7" => y_records[t] = << >> /\ V7Log(t) = {}
        /\ TickerReturned(t) =>
               /\ V7Log(t) = {} <=> y_records[t] = JsonRecords(tickers[t])
               /\ V7Log(t) # {} => V7Log(t) = { Len(y_log[t]) }

FallbackStep ==
    \A t \in Tickers :
        /\ (y_pc[t] \in {"v8", "retry"} /\ y_pc'[t] \notin {"v8", "retry", "renew_wait"}) =>
               /\ y_pc'[t] = "v7" <=> y_records'[t] = << >>
               /\ y_pc'[t] = "returned" <=> y_records'[t] = JsonRecords(tickers[t])
        /\ y_pc[t] = "v7" /\ y_pc'[t] # "v7" =>
               /\ y_pc'[t] = "returned"
               /\ V7Log(t)' = { Len(y_log[t]) + 1 }
        /\ TickerReturned(t) => y_records'[t] = y_records[t] /\ y_log'[t] = y_log[t]

\* C26: the v7 CSV endpoint is called if and only if the v8 JSON path yielded
\* no records; when the JSON path yields a record the CSV endpoint is never
\* called and the JSON records are returned unchanged.
C26_CsvIffJsonEmpty == []FallbackIffEmpty /\ [][FallbackStep]_vars

\* One ticker has returned its JSON records without a CSV request, another
\* has returned after the CSV request that followed an empty JSON result.
C26_Witness ==
    \E t, u \in Tickers :
        /\ TickerReturned(t) /\ V7Log(t) = {} /\ y_records[t] = JsonRecords(tickers[t])
        /\ TickerReturned(u) /\ V7Log(u) # {}

\* `days` holds every Monday-to-Friday date of start..end exactly once, in
\* ascending order, and nothing else.
WeekdaysOf(days, start, end) ==
    /\ \A d \in start..end :
           weekday(d) < 5 =>
               Cardinality({ k \in 1..Len(days) : days[k] = strftime(d) }) = 1
    /\ \A k \in 1..Len(days) :
           \E d \in start..end : weekday(d) < 5 /\ days[k] = strftime(d)
    /\ \A k, l \in 1..Len(days) : k < l => StrLess(days[k], days[l])

OneTaskPerDay ==
    /\ \A start, end \in Window :
           all_days = weekdays_in_range(start, end) => WeekdaysOf(all_days, start, end)
    /\ DOMAIN pc = 1..Len(all_days)
    /\ progress.bvc_total = Len(all_days)

SubmittedOnce ==
    /\ all_days' = all_days
    /\ progress'.bvc_total = progress.bvc_total
    /\ \A i \in Tasks : pc[i] # "PENDING" => pc'[i] # "PENDING"

\* C28: weekdays_in_range(start, end) returns every Monday-to-Friday date of
\* start..end exactly once, in ascending order, and no Saturday or Sunday;
\* main submits worker_day once for each of them, and bvc_total is their
\* number.
C28_OneTaskPerWeekday == []OneTaskPerDay /\ [][SubmittedOnce]_vars

\* The range Friday 2023-12-29 .. Monday 2024-01-01: two dates, the weekend
\* between them left out, and both tasks submitted.
C28_Witness ==
    /\ all_days = << <<2023, 12, 29>>, <<2024, 1, 1>> >>
    /\ all_days = weekdays_in_range(fromisoformat(<<2023, 12, 29>>),
                                    fromisoformat(<<2024, 1, 1>>))
    /\ progress.bvc_total = 2
    /\ \A i \in Tasks : pc[i] # "PENDING"

\* The threads whose call ran yahoo_init_session.
InitRuns == { t \in Tickers : y_own[t] # NoPair }

\* C27: the shared session is created lazily and once: whatever the number
\* of threads that call get_yahoo_session_and_crumb at the same time,
\* yahoo_init_session runs at most once, and, as long as no renewal has
\* replaced the pair, every caller returns the same session and crumb.
C27_SessionCreatedOnce ==
    /\ Cardinality(InitRuns) <= 1
    /\ InitRuns = {} <=> y_global = NoPair
    /\ renewals = << >> =>
           \A t \in Tickers :
               y_pc[t] = "returned" =>
                   /\ y_cur[t] = y_global
                   /\ y_cur[t].session # NoSession
                   /\ \A u \in Tickers : y_pc[u] = "returned" => y_cur[u] = y_cur[t]

\* Every thread has returned, one of them ran yahoo_init_session, and a
\* thread that did not run it returned the pair the other made.
C27_Witness ==
    /\ Cardinality(Tickers) = Callers
    /\ \A t \in Tickers : y_pc[t] = "returned"
    /\ Cardinality(InitRuns) = 1
    /\ \E t \in Tickers : t \notin InitRuns /\ y_cur[t].session.by \in InitRuns

\* What the latest fetch_day of task i did.
LastAnswer(i) == market[probed[i][Len(probed[i])]]

\* C25: every fetch_day follows the two-step protocol: the handshake comes
\* first and the data query carries the token that handshake issued, a new
\* one for each query; a failed handshake is followed by no data query;
\* fetch_day raises on a non-success status of either call; and when both
\* calls succeed it returns the rows, be there none, without raising.
C25_TwoStepProtocol ==
    \A i \in Tasks :
        probed[i] # << >> =>
            LET w == wire[i]
                n == Len(probed[i])
            IN  /\ Len(w) \in {1, 2}
                /\ w[1].call = "handshake"
                /\ w[1].status # 200 =>
                       /\ Len(w) = 1
                       /\ LastAnswer(i) = Raises
                /\ w[1].status = 200 =>
                       /\ Len(w) = 2
                       /\ w[1].token = [by |-> i, n |-> n]
                       /\ w[2].call = "query"
                       /\ w[2].token = w[1].token
                       /\ w[2].status # 200 => LastAnswer(i) = Raises
                       /\ w[2].status = 200 => ~LastAnswer(i).raises

\* The second fetch_day of a task: its handshake and its query succeed, the
\* query carries the second token, and the empty list is returned.
C25_Witness ==
    \E i \in Tasks :
        /\ Len(probed[i]) = 2
        /\ Len(wire[i]) = 2
        /\ wire[i][1].status = 200
        /\ wire[i][2].status = 200
        /\ wire[i][2].token = [by |-> i, n |-> 2]
        /\ LastAnswer(i) = Returns(<< >>)
        /\ tab[i] = << >>

Started == { i \in Tasks : thread[i] # 0 }

\* The sessions get_session created on thread w: a session bears the name of
\* the task whose call created it.
CreatedOn(w) == { i \in Started : thread[i] = w /\ session[i] = i }

\* C29: the sessions of the BVC pool are per worker thread: get_session
\* creates at most one session on a thread, every later call on the thread
\* returns that session, and no session is used by two threads.
C29_SessionPerThread ==
    /\ \A w \in Workers : Cardinality(CreatedOn(w)) <= 1
    /\ \A i, j \in Started :
           /\ thread[i] = thread[j] => session[i] = session[j]
           /\ session[i] = session[j] => thread[i] = thread[j]
    /\ \A i \in Started :
           /\ session[i] = _tls[thread[i]]
           /\ session[i] # NoTls
           /\ \A k \in 1..Len(wire[i]) : wire[i][k].session = session[i]

\* The second task ran on the thread of the first and made its calls with
\* the session the first task created.
C29_Witness ==
    /\ Cardinality(Started) = 2
    /\ thread[1] = thread[2]
    /\ session[2] = 1
    /\ wire[1] # << >>
    /\ wire[2] # << >>
    /\ wire[2][1].session = wire[1][1].session

LastRequest(t) == y_log[t][Len(y_log[t])]

\* The line is one of the bad rows: it has fewer fields than the header, its
\* close is empty or holds "null", or one of its numeric fields cannot be
\* converted.
BadLine(header, line) ==
    LET close == RowGet(header, line, "close")
        volume == Float(RowGet(header, line, "volume"))
    IN  \/ 1 + Len(line.fields) < Len(header)
        \/ close = ""
        \/ close \in {"null", "NULL"}
        \/ Float(RowGet(header, line, "open")).raises
        \/ Float(close).raises
        \/ volume.raises
        \/ volume.value = Infinity

KeptLines(text) ==
    { k \in 1..Len(text.lines) : ~BadLine(text.header, text.lines[k]) }

KeptBars(chart) == { k \in 1..Len(chart.timestamp) : chart.close[k] # None }

\* C30: in the CSV path every bad row is skipped by itself and every other
\* row of the response is returned; in the JSON path every timestamp whose
\* close is null is dropped and every other one is kept.
C30_BadRowsSkipped ==
    \A t \in Tickers :
        /\ (TickerReturned(t) /\ LastRequest(t).endpoint = "v7"
                /\ LastRequest(t).status = 200) =>
               LET text == LastRequest(t).body.csv
               IN  /\ Len(y_records[t]) = Cardinality(KeptLines(text))
                   /\ \A k \in KeptLines(text) :
                          \E j \in 1..Len(y_records[t]) :
                              y_records[t][j] =
                                  CsvRow(text.header, text.lines[k], tickers[t]).record
        /\ (TickerReturned(t) /\ LastRequest(t).endpoint = "v8"
                /\ LastRequest(t).status = 200
                /\ LastRequest(t).body.json.wellformed) =>
               LET chart == LastRequest(t).body.json
               IN  /\ Len(y_records[t]) = Cardinality(KeptBars(chart))
                   /\ \A k \in KeptBars(chart) :
                          \E j \in 1..Len(y_records[t]) :
                              /\ y_records[t][j].date = strftime(chart.timestamp[k])
                              /\ y_records[t][j].close = chart.close[k]

\* C31: every record in the accumulator of a security belongs to that
\* security: its mnemonic is the key, its board the board configured for the
\* security, and its close, date and targetDate are not null.
C31_RecordsBelongToSecurity ==
    \A mn \in Mnemonics :
        \A k \in 1..Len(all_results[mn]) :
            LET r == all_results[mn][k]
            IN  /\ r.mnemonic = mn
                /\ r.board = BoardOf(mn)
                /\ r.close # None
                /\ r.date # NoDate
                /\ r.targetDate # NoDate
                /\ \E i \in Tasks : r.targetDate = all_days[i]

\* Both tracked securities have a record in their accumulator.
C31_Witness ==
    /\ main_pc # "bvc"
    /\ \A mn \in Mnemonics : Len(all_results[mn]) >= 1
    /\ all_results["ECOPETROL"][1].mnemonic = "ECOPETROL"
    /\ all_results["ISA"][1].mnemonic = "ISA"

\* C32: a task issues at most MAX_RETRY_DAYS calls of fetch_day; every
\* candidate it probes is a Monday-to-Friday date that is not before the
\* target, and the candidates never go back (a date may be probed twice).
C32_ProbesBoundedForward ==
    \A i \in Tasks :
        /\ Len(probed[i]) <= MAX_RETRY_DAYS
        /\ \A k \in 1..Len(probed[i]) :
               /\ weekday(fromisoformat(probed[i][k])) < 5
               /\ fromisoformat(probed[i][k]) >= fromisoformat(all_days[i])
        /\ \A k, l \in 1..Len(probed[i]) :
               k < l => StrLeq(probed[i][k], probed[i][l])

\* A task for a Friday has made its seven calls: the Monday after it was
\* probed three times, and five dates were covered.
C32_Witness ==
    \E i \in Tasks :
        /\ weekday(fromisoformat(all_days[i])) = 4
        /\ Len(probed[i]) = MAX_RETRY_DAYS
        /\ probed[i][2] = probed[i][3]
        /\ probed[i][3] = probed[i][4]
        /\ Cardinality({ probed[i][k] : k \in 1..Len(probed[i]) }) = 5


\* The counter equation of the BVC phase: bvc_done never exceeds bvc_total,
\* and it is bvc_skip plus the number of tasks that passed their counter
\* update with a non-empty snapshot.
DoneIsSkipPlusOk ==
    progress.bvc_done = progress.bvc_skip + Cardinality({ i \in Tasks : CountedOk(i) })

\* What the counters and the accumulators are when the phase has ended with no
\* failed task.
EndOfCleanPhase ==
    (main_pc # "bvc" /\ Failed = {}) =>
        /\ CountMerged(Mnemonics) = progress.bvc_ok
        /\ progress.bvc_done + progress.bvc_errors = progress.bvc_total

\* C33 as stated: in every reachable state of the BVC phase bvc_done <=
\* bvc_total and bvc_done = bvc_skip + (tasks counted with a non-empty
\* snapshot); and at the end of a phase with no failed task the accumulators
\* hold bvc_ok records and bvc_done + bvc_errors = bvc_total.
C33_DoneIsSkipPlusOkAlways ==
    /\ progress.bvc_done <= progress.bvc_total
    /\ DoneIsSkipPlusOk
    /\ EndOfCleanPhase

\* C33, amended: the equation bvc_done = bvc_skip + (tasks counted with a
\* non-empty snapshot) holds in every reachable state in which print_lock is
\* free (between the two increments of the skip branch, inside the lock,
\* bvc_skip is already one ahead); bvc_done <= bvc_total holds in every state,
\* and the end of a phase with no failed task is as stated.
C33_DoneIsSkipPlusOkUnlocked ==
    /\ progress.bvc_done <= progress.bvc_total
    /\ ~print_lock => DoneIsSkipPlusOk
    /\ EndOfCleanPhase

\* The phase has ended with no failed task: one task skipped, one counted its
\* records, and every counted record is in the accumulators.
C33_Witness ==
    /\ main_pc # "bvc"
    /\ Failed = {}
    /\ ~print_lock
    /\ progress.bvc_total = 2
    /\ progress.bvc_done = 2
    /\ progress.bvc_skip = 1
    /\ progress.bvc_ok >= 1
    /\ CountMerged(Mnemonics) = progress.bvc_ok


\* C34: the session and the crumb a ticker task uses for its retry are the
\* pair of one handshake, the task's own renewal, and no other task uses that
\* session for its retry or has replaced it by a renewal of its own.
C34_RetryPairOfOneHandshake ==
    \A t \in Tickers :
        y_pc[t] = "retry" =>
            /\ y_cur[t].crumb \in {NoSession, y_cur[t].session}
            /\ y_cur[t].session = RenewedSession(t)
            /\ y_global.session = y_cur[t].session
            /\ \A u \in Tickers \ {t} :
                   y_pc[u] = "retry" => y_cur[u].session # y_cur[t].session


\* C35: the records of a security hold at most one record for a resolved
\* date, in the accumulator and in the sequence handed to persistence: two
\* tasks for different target dates never both contribute a record with the
\* same 'date' to the same security.
C35_OneRecordPerResolvedDate ==
    \A mn \in Mnemonics :
        /\ \A k, l \in 1..Len(all_results[mn]) :
               all_results[mn][k].date = all_results[mn][l].date => k = l
        /\ mn \in DOMAIN saved =>
               \A k, l \in 1..Len(saved[mn]) :
                   saved[mn][k].date = saved[mn][l].date => k = l


\* C35, amended: the records of a security, in the accumulator and in the
\* sequence handed to persistence, hold at most one record for a target date
\* ('targetDate'); records of different target dates may carry the same
\* resolved date ('date'), each resolved on or after its own target date.
C35_OneRecordPerTargetDate ==
    \A mn \in Mnemonics :
        /\ \A k, l \in 1..Len(all_results[mn]) :
               all_results[mn][k].targetDate = all_results[mn][l].targetDate => k = l
        /\ mn \in DOMAIN saved =>
               /\ \A k, l \in 1..Len(saved[mn]) :
                      saved[mn][k].targetDate = saved[mn][l].targetDate => k = l
               /\ \A k \in 1..Len(saved[mn]) :
                      StrLeq(saved[mn][k].targetDate, saved[mn][k].date)

\* The file of a security holds two records with the same resolved date: the
\* one of the task for that date and the one of the task for the day before,
\* which had no data.
C35_Witness ==
    \E mn \in Mnemonics :
        /\ mn \in DOMAIN saved
        /\ Len(saved[mn]) = 2
        /\ saved[mn][1].date = saved[mn][2].date
        /\ saved[mn][1].targetDate # saved[mn][2].targetDate
        /\ \E k \in 1..2 : saved[mn][k].targetDate = saved[mn][k].date


\* Every CSV request of a ticker carries the session and crumb of the
\* ticker's own handshake of line 297, and a ticker that returned after a
\* CSV request answered 401/403 returned the empty list, that request being
\* its last.
CsvWithOwnPair ==
    \A t \in Tickers :
        /\ \A k \in V7Log(t) :
               /\ y_log[t][k].session = OwnSession(t)
               /\ y_log[t][k].session = y_own[t].session
               /\ y_log[t][k].crumb = y_own[t].crumb
        /\ (TickerReturned(t) /\ V7Log(t) # {}
                /\ y_log[t][Len(y_log[t])].status \in {401, 403}) =>
               /\ y_records[t] = << >>
               /\ V7Log(t) = { Len(y_log[t]) }

\* The CSV request is the last step of a ticker: no renewal and no request
\* follows it.
CsvIsLastStep ==
    \A t \in Tickers :
        /\ y_pc[t] = "v7" =>
               /\ y_pc'[t] \in {"v7", "returned"}
               /\ RenewalsBy(t)' = RenewalsBy(t)
               /\ Len(y_log'[t]) <= Len(y_log[t]) + 1
        /\ TickerReturned(t) =>
               /\ RenewalsBy(t)' = RenewalsBy(t)
               /\ y_log'[t] = y_log[t]

\* C36: the CSV fallback of a ticker is issued with the session and crumb of
\* the ticker's own initial handshake, also after the JSON path renewed the
\* session, and a 401/403 on the CSV request triggers no renewal and no
\* retry: the ticker ends with the empty list.
C36_CsvFallbackOwnPairNoRenewal == []CsvWithOwnPair /\ [][CsvIsLastStep]_vars

\* A ticker renewed the session in the JSON path, retried with the renewed
\* session, fell back to the CSV request with its own first session, was
\* answered 401/403 and returned the empty list.
C36_Witness ==
    \E t \in Tickers :
        /\ TickerReturned(t)
        /\ RenewalsBy(t) = 1
        /\ y_cur[t].session # y_own[t].session
        /\ Len(y_log[t]) = 3
        /\ y_log[t][2].session = y_cur[t].session
        /\ y_log[t][3].endpoint = "v7"
        /\ y_log[t][3].session = OwnSession(t)
        /\ y_log[t][3].status \in {401, 403}
        /\ y_records[t] = << >>


\* Every request of the ticker was answered, and none with 200.
AllRequestsFailed(t) ==
    /\ y_log[t] # << >>
    /\ \A k \in 1..Len(y_log[t]) : y_log[t][k].status # 200

\* C37: after the Yahoo phase yahoo_results has one entry for every ticker,
\* whatever failed; the entry holds the records the task returned, a ticker
\* whose every request failed has the empty list, and main reports it through
\* the same branch as a ticker that succeeded with zero records.
C37_EntryForEveryTicker ==
    main_pc \in {"save", "done"} =>
        /\ Len(yahoo_results) = Len(tickers)
        /\ \A t \in Tickers :
               \E k \in 1..Len(yahoo_results) :
                   /\ yahoo_results[k].ticker = tickers[t]
                   /\ yahoo_results[k].records = y_records[t]
                   /\ yahoo_results[k].report = "ok"
                   /\ AllRequestsFailed(t) => yahoo_results[k].records = << >>

\* The phase has ended for a ticker whose handshake got no crumb and whose
\* JSON and CSV requests both failed: its entry is the empty list, reported
\* through the success branch.
C37_Witness ==
    /\ main_pc = "save"
    /\ \E t \in Tickers :
         /\ y_own[t].crumb = NoSession
         /\ Len(y_log[t]) = 2
         /\ y_log[t][1].status = 500
         /\ y_log[t][2].endpoint = "v7"
         /\ y_log[t][2].status = 0
         /\ \E k \in 1..Len(yahoo_results) :
              yahoo_results[k] = [ticker |-> tickers[t], records |-> << >>,
                                  report |-> "ok"]


\* The steps the weekend-skipping inner loop takes for the candidate of
\* `delta` d of day-task i.
WeekendSteps(i, d) ==
    Candidate(fromisoformat(all_days[i]), d) - (fromisoformat(all_days[i]) + d)

\* The bounds of C38: a day-task makes at most MAX_RETRY_DAYS probes, the
\* inner loop of each at most 2 steps; a ticker task issues at most three
\* requests and runs at most one renewal handshake; a terminal task stays as
\* it is.
BoundedWork ==
    /\ \A i \in Tasks :
           /\ Len(probed[i]) <= MAX_RETRY_DAYS
           /\ delta[i] <= MAX_RETRY_DAYS
           /\ \A d \in 0..(MAX_RETRY_DAYS - 1) : WeekendSteps(i, d) \in 0..2
    /\ \A t \in Tickers :
           /\ Len(y_log[t]) <= 3
           /\ RenewalsBy(t) <= 1

EveryTaskTerminal ==
    /\ \A i \in Tasks : DayTerminal(i)
    /\ \A t \in Tickers : y_pc[t] = "COLLECTED"

\* C38: every day-task ends after at most MAX_RETRY_DAYS probes, every
\* ticker task after a bounded number of requests, and main eventually
\* reaches the save step with every task terminal, whatever the calls
\* answered.
C38_Termination ==
    /\ []BoundedWork
    /\ <>(main_pc \in {"save", "done"} /\ EveryTaskTerminal)

\* main has reached the save step after a day-task that used up its seven
\* probes and a ticker that renewed, retried and fell back to the CSV request.
C38_Witness ==
    /\ main_pc = "save"
    /\ EveryTaskTerminal
    /\ \E i \in Tasks : Len(probed[i]) = MAX_RETRY_DAYS
    /\ \E t \in Tickers : Len(y_log[t]) = 3 /\ RenewalsBy(t) = 1

====
